---------------------------- MODULE Spec2Model ----------------------------
(***************************************************************************)
(* A model of the UGA nutrition app (src/app.py, src/vision.py,            *)
(* src/groq_agent.py, src/app_enhanced.py): the nutrition value parser,    *)
(* the food group classifier, the menu catalog loader, the food scanner's  *)
(* nutrition estimate, the food log with its daily totals, the target      *)
(* ranges and the nutrition agent with its local fallback.                 *)
(*                                                                         *)
(* Python strings are TLC strings.  Python floats are modelled as exact    *)
(* decimals: a record [m |-> mantissa, e |-> number of decimal places]     *)
(* standing for m / 10^e, kept normalised (no trailing zero in m while     *)
(* e > 0), so that two decimals are equal exactly when the records are.    *)
(***************************************************************************)
EXTENDS Integers, Sequences, FiniteSets, TLC

VARIABLES
    value,        \* parser: the cell handed to parse_nutrition_value
    origin,       \* parser: how the cell was put together (ghost)
    parsed,       \* parser: the outcome of the call, or NotCalled
    category,     \* classifier: the category argument
    name,         \* classifier: the name argument
    food_group,   \* classifier: the returned group, or NotCalled
    df,           \* loader: the rows read from the CSV file
    menu,         \* loader: the returned catalog, or NotCalled
    food_log,     \* session: st.session_state.food_log
    user_profile,         \* session: st.session_state.user_profile
    goals,                \* session: st.session_state.goals
    daily_targets,        \* session: st.session_state.daily_targets
    onboarding_complete,  \* session: st.session_state.onboarding_complete
    activity_day_type,    \* session: st.session_state.activity_day_type
    data_dir_ok,          \* file system: can data/user_data.json be written
    user_data_file,       \* file system: the content of data/user_data.json
    image_source,         \* scanner page: the uploaded or taken photo
    detections,   \* scanner page: what the detector returned for the photo
    portion,      \* scanner page: the portion selectbox of each detection
    scan_add,     \* scanner page: the Add checkbox of each detection
    items_to_add, \* scanner page: the estimates the last run collected
    selected_date,        \* food log page: the View date input
    log_totals,   \* food log page: the totals it shows, or NotCalled
    today_totals, \* agent page: the totals handed to the agent, or NotCalled
    det_label,    \* resolver: the label of one detection
    det_portion,  \* resolver: the portion chosen for it
    estimate,     \* resolver: the scanner's estimate for it, or NotCalled
    results_ok,   \* predict: the model returned results with probabilities
    class_name,   \* predict: the name of the top-1 class
    top1_conf,    \* predict: the confidence of the top-1 class
    prediction,   \* predict: what predict returned, or NotCalled
    base_targets, \* get_target_range: the base_targets argument
    day_type,     \* get_target_range: the day_type argument
    t_range,      \* get_target_range: the returned dict, or NotCalled
    side_totals,  \* sidebar: Today's Progress, or NotCalled
    home_totals,  \* home page: Today's Intake, or NotCalled
    week_totals,  \* progress page: daily_totals, or NotCalled
    csv_file,  \* menu source: the state of uga-nutrition-export.csv
    loaded,  \* menu source: the outcome of load_menu_from_csv, or NotCalled
    client,  \* agent: self.client of the NutritionAgent, None or a client
    chat_history,  \* agent page: st.session_state.chat_history
    response,  \* agent page: the outcome of the last chat input, or NotCalled
    enhanced,  \* enhanced app: the outcome of fallback_response, or NotCalled
    page,  \* sidebar: the page chosen in the Navigation radio
    selected_hall,  \* dining finder: the hall filter
    download,  \* food log page: the data of the last export, or NotCalled
    menu_cache,  \* st.cache_data: the value cached for load_menu_cached, or NotCalled
    loaded_before,  \* menu source: the outcome of the load before the last one, or NotCalled
    source_changed,  \* menu source: the file changed after the first load (ghost)
    agent_authenticated   \* enhanced app: st.session_state.agent_authenticated

parseVars == <<value, origin, parsed>>
classVars == <<category, name, food_group>>
loadVars  == <<df, menu>>
profileVars == <<user_profile, goals, daily_targets, onboarding_complete,
                 activity_day_type>>
fileVars == <<data_dir_ok, user_data_file>>
scanVars == <<image_source, detections, portion, scan_add, items_to_add>>
totalVars == <<selected_date, log_totals, today_totals>>
resolveVars == <<det_label, det_portion, estimate>>
predictVars == <<results_ok, class_name, top1_conf, prediction>>
rangeVars == <<base_targets, day_type, t_range>>
aggVars == <<side_totals, home_totals, week_totals>>
sourceVars == <<csv_file, loaded>>
agentVars == <<client, chat_history, response, enhanced>>
appVars == <<page, selected_hall, download, menu_cache, loaded_before,
             source_changed, agent_authenticated>>
sessVars  == <<food_log, profileVars, fileVars, scanVars, totalVars, resolveVars,
               predictVars, rangeVars, aggVars, sourceVars, agentVars, appVars>>
vars == <<parseVars, classVars, loadVars, sessVars>>

NotCalled == [called |-> FALSE]
None == [none |-> TRUE]
NoFile == [exists |-> FALSE]

\* str(datetime.now().date()) and datetime.now().strftime("%H:%M"): the
\* session is modelled within one minute of one day.
Today == "2026-01-02"
NowHM == "12:30"

-----------------------------------------------------------------------------
(* Bounds of the model.                                                    *)

MaxTenths == 12    \* numerals n/10 with |n| <= MaxTenths are parser inputs
MaxPad == 1        \* blanks put around the parts of a parser input

-----------------------------------------------------------------------------
(* Python str methods.                                                     *)

UpperLetters == "ABCDEFGHIJKLMNOPQRSTUVWXYZ"
LowerLetters == "abcdefghijklmnopqrstuvwxyz"
DigitChars == "0123456789"

CharAt(s, i) == SubSeq(s, i, i)
Rest(s) == SubSeq(s, 2, Len(s))
IndexIn(alphabet, c) ==
    IF \E i \in 1..Len(alphabet) : CharAt(alphabet, i) = c
    THEN CHOOSE i \in 1..Len(alphabet) : CharAt(alphabet, i) = c
    ELSE 0

ToLower == [c \in {CharAt(UpperLetters, i) : i \in 1..Len(UpperLetters)} |->
               CharAt(LowerLetters, IndexIn(UpperLetters, c))]
ToUpper == [c \in {CharAt(LowerLetters, i) : i \in 1..Len(LowerLetters)} |->
               CharAt(UpperLetters, IndexIn(LowerLetters, c))]
LowerChar(c) == IF c \in DOMAIN ToLower THEN ToLower[c] ELSE c
UpperChar(c) == IF c \in DOMAIN ToUpper THEN ToUpper[c] ELSE c
IsLetter(c) == c \in DOMAIN ToLower \/ c \in DOMAIN ToUpper

RECURSIVE Lower(_)
Lower(s) == IF s = "" THEN "" ELSE LowerChar(CharAt(s, 1)) \o Lower(Rest(s))

IsSpace(c) == c \in {" ", "\t"}
RECURSIVE LStrip(_)
LStrip(s) == IF s # "" /\ IsSpace(CharAt(s, 1)) THEN LStrip(Rest(s)) ELSE s
RECURSIVE RStrip(_)
RStrip(s) ==
    IF s # "" /\ IsSpace(CharAt(s, Len(s)))
    THEN RStrip(SubSeq(s, 1, Len(s) - 1)) ELSE s
Strip(s) == RStrip(LStrip(s))

EndsWith(s, suffix) ==
    /\ Len(s) >= Len(suffix)
    /\ SubSeq(s, Len(s) - Len(suffix) + 1, Len(s)) = suffix

\* kw in text
Contains(text, kw) ==
    \E i \in 1..(Len(text) - Len(kw) + 1) : SubSeq(text, i, i + Len(kw) - 1) = kw

-----------------------------------------------------------------------------
(* Decimals: the model of Python floats.                                   *)

RECURSIVE Pow10(_)
Pow10(k) == IF k = 0 THEN 1 ELSE 10 * Pow10(k - 1)

RECURSIVE Norm(_, _)
Norm(m, e) ==
    IF e > 0 /\ m % 10 = 0 THEN Norm(m \div 10, e - 1) ELSE [m |-> m, e |-> e]

Dec(m, e) == Norm(m, e)
Zero == Dec(0, 0)
One == Dec(1, 0)
Max2(a, b) == IF a >= b THEN a ELSE b
AtScale(x, e) == x.m * Pow10(e - x.e)
DecAdd(x, y) == Norm(AtScale(x, Max2(x.e, y.e)) + AtScale(y, Max2(x.e, y.e)), Max2(x.e, y.e))
DecMul(x, y) == Norm(x.m * y.m, x.e + y.e)
DecNonNeg(x) == x.m >= 0

-----------------------------------------------------------------------------
(* float(str) and str(number).                                             *)

\* the value of each digit character
DigitOf == [c \in {CharAt(DigitChars, i) : i \in 1..Len(DigitChars)} |->
               IndexIn(DigitChars, c) - 1]
AllDigits(s) == \A i \in 1..Len(s) : CharAt(s, i) \in DOMAIN DigitOf

RECURSIVE StrToNat(_)
StrToNat(s) ==
    IF s = "" THEN 0
    ELSE 10 * StrToNat(SubSeq(s, 1, Len(s) - 1)) + DigitOf[CharAt(s, Len(s))]

RECURSIVE NatToStr(_)
NatToStr(n) ==
    IF n < 10 THEN CharAt(DigitChars, n + 1)
    ELSE NatToStr(n \div 10) \o CharAt(DigitChars, (n % 10) + 1)

RECURSIVE ZeroPad(_, _)
ZeroPad(s, width) == IF Len(s) >= width THEN s ELSE ZeroPad("0" \o s, width)

\* float(s).  Python's float accepts blanks around the number, one sign,
\* digits with at most one point and at least one digit; everything else
\* that can be written with letters other than e, f, i, n, with digits,
\* blanks, signs and points raises ValueError.  (Exponents, inf, nan and
\* underscores need characters the inputs of this model never hold.)
PyFloat(s) ==
    LET t == Strip(s)
        signed == t # "" /\ CharAt(t, 1) \in {"-", "+"}
        neg == t # "" /\ CharAt(t, 1) = "-"
        u == IF signed THEN Rest(t) ELSE t
        dot == IndexIn(u, ".")
        ip == IF dot = 0 THEN u ELSE SubSeq(u, 1, dot - 1)
        fp == IF dot = 0 THEN "" ELSE SubSeq(u, dot + 1, Len(u))
        valid == AllDigits(ip) /\ AllDigits(fp) /\ Len(ip) + Len(fp) >= 1
        mag == StrToNat(ip \o fp)
    IN  IF valid
        THEN [raises |-> "none", v |-> Dec(IF neg THEN 0 - mag ELSE mag, Len(fp))]
        ELSE [raises |-> "ValueError", v |-> Zero]

\* str(number): "150" for an integer, "150.0" or "7.6" for a float.
PyStr(num) ==
    LET mag == IF num.v.m < 0 THEN 0 - num.v.m ELSE num.v.m
        ip == NatToStr(mag \div Pow10(num.v.e))
        fp == IF num.v.e = 0 THEN (IF num.isint THEN "" ELSE ".0")
              ELSE "." \o ZeroPad(NatToStr(mag % Pow10(num.v.e)), num.v.e)
    IN  (IF num.v.m < 0 THEN "-" ELSE "") \o ip \o fp

-----------------------------------------------------------------------------
(* Cells of the CSV table as pandas hands them over: NaN for an empty      *)
(* cell, a string, or a number (a column of numbers only).                 *)

NaN == [kind |-> "nan", s |-> "", isint |-> FALSE, v |-> Zero]
StrCell(s) == [kind |-> "str", s |-> s, isint |-> FALSE, v |-> Zero]
NumCell(v, isint) == [kind |-> "num", s |-> "", isint |-> isint, v |-> v]

IsNa(cell) == cell.kind = "nan"
\* str(cell); str(nan) is "nan"
CellStr(cell) ==
    CASE cell.kind = "nan" -> "nan"
      [] cell.kind = "str" -> cell.s
      [] OTHER -> PyStr(cell)

-----------------------------------------------------------------------------
(* parse_nutrition_value                                                   *)

\* the suffixes tried shortest first
SUFFIXES_shortest_first == <<"g", "mg", "cal", "kcal">>
SUFFIXES == <<"kcal", "cal", "mg", "g">>

\* the loop over the suffixes: the first suffix the lowercased string ends
\* with is cut off and the loop left
RECURSIVE StripSuffix(_, _, _)
StripSuffix(value_str, suffixes, i) ==
    IF i > Len(suffixes) THEN value_str
    ELSE IF EndsWith(Lower(value_str), suffixes[i])
         THEN Strip(SubSeq(value_str, 1, Len(value_str) - Len(suffixes[i])))
         ELSE StripSuffix(value_str, suffixes, i + 1)

\* the parser without its try/except around float()
parse_nutrition_value_unguarded(cell) ==
    IF IsNa(cell) \/ (cell.kind = "str" /\ cell.s = "")
    THEN [raises |-> "none", v |-> Zero]
    ELSE PyFloat(StripSuffix(Strip(CellStr(cell)), SUFFIXES, 1))

parse_nutrition_value(cell) ==
    IF IsNa(cell) \/ (cell.kind = "str" /\ cell.s = "")
    THEN [raises |-> "none", v |-> Zero]
    ELSE LET value_str == StripSuffix(Strip(CellStr(cell)), SUFFIXES, 1)
             f == PyFloat(value_str)
         IN  IF f.raises = "ValueError"
             THEN [raises |-> "none", v |-> Zero]
             ELSE f


-----------------------------------------------------------------------------
(* _classify_food_group                                                    *)

FOOD_GROUP_KEYWORDS == <<
    [group |-> "Protein", keywords |-> <<"chicken", "beef", "pork",
        "turkey", "fish", "salmon", "tuna", "shrimp", "egg", "tofu",
        "sausage", "bacon", "steak", "burger", "meatball", "lamb", "wings",
        "tenderloin", "brisket", "ham", "falafel", "crab", "lobster">>],
    [group |-> "Grains", keywords |-> <<"bread", "rice", "pasta", "noodle",
        "tortilla", "wrap", "biscuit", "roll", "cereal", "oatmeal",
        "grits", "bagel", "muffin", "pancake", "waffle", "crouton",
        "couscous", "quinoa", "pita", "croissant">>],
    [group |-> "Vegetables", keywords |-> <<"broccoli", "carrot",
        "spinach", "kale", "lettuce", "tomato", "pepper", "onion",
        "cucumber", "corn", "bean", "pea", "squash", "zucchini", "celery",
        "mushroom", "potato", "sweet potato", "cabbage", "asparagus",
        "cauliflower", "salad", "veggie", "vegetable", "greens", "collard">>],
    [group |-> "Fruits", keywords |-> <<"apple", "banana", "orange",
        "berry", "strawberry", "blueberry", "grape", "melon", "watermelon",
        "pineapple", "mango", "peach", "pear", "fruit">>],
    [group |-> "Dairy", keywords |-> <<"cheese", "milk", "yogurt", "cream",
        "butter", "ice cream", "cottage", "mozzarella", "cheddar",
        "parmesan", "provolone">>],
    [group |-> "Fats & Oils", keywords |-> <<"oil", "dressing", "mayo",
        "mayonnaise", "ranch", "vinaigrette", "guacamole", "avocado",
        "nuts", "almond", "peanut", "walnut">>],
    [group |-> "Sweets & Desserts", keywords |-> <<"cake", "cookie",
        "brownie", "pie", "donut", "pastry", "candy", "chocolate",
        "pudding", "dessert", "cobbler", "sweet">>],
    [group |-> "Beverages", keywords |-> <<"juice", "coffee", "tea",
        "soda", "lemonade", "smoothie", "water", "drink", "beverage",
        "shake">>]
>>

\* sum(1 for kw in keywords if kw in text), from the i-th keyword on
RECURSIVE Score(_, _, _)
Score(keywords, text, i) ==
    IF i > Len(keywords) THEN 0
    ELSE (IF Contains(text, keywords[i]) THEN 1 ELSE 0) + Score(keywords, text, i + 1)

\* the loop with best updated on score >= best_score
RECURSIVE ClassifyLoop_last_wins(_, _, _, _)
ClassifyLoop_last_wins(text, i, best_group, best_score) ==
    IF i > Len(FOOD_GROUP_KEYWORDS) THEN best_group
    ELSE LET score == Score(FOOD_GROUP_KEYWORDS[i].keywords, text, 1)
         IN  IF score >= best_score
             THEN ClassifyLoop_last_wins(text, i + 1, FOOD_GROUP_KEYWORDS[i].group, score)
             ELSE ClassifyLoop_last_wins(text, i + 1, best_group, best_score)

\* the loop over FOOD_GROUP_KEYWORDS.items(), from the i-th group on
RECURSIVE ClassifyLoop(_, _, _, _)
ClassifyLoop(text, i, best_group, best_score) ==
    IF i > Len(FOOD_GROUP_KEYWORDS) THEN best_group
    ELSE LET score == Score(FOOD_GROUP_KEYWORDS[i].keywords, text, 1)
         IN  IF score > best_score
             THEN ClassifyLoop(text, i + 1, FOOD_GROUP_KEYWORDS[i].group, score)
             ELSE ClassifyLoop(text, i + 1, best_group, best_score)

\* the classifier with best_score starting below zero
_classify_food_group_from_minus_one(cat, nm) ==
    ClassifyLoop(Lower(nm \o " " \o cat), 1, "Other", 0 - 1)

_classify_food_group(cat, nm) ==
    ClassifyLoop(Lower(nm \o " " \o cat), 1, "Other", 0)

-----------------------------------------------------------------------------
(* load_menu_from_csv, from the table pandas read.  A row is a record of   *)
(* cells named by the CSV columns.                                         *)

KeyOf(row) == <<row.Recipe_Print_As_Name, row.Location_Name, row.Menu_Category_Name>>

\* df.drop_duplicates(subset=[name, location, category]): a row is dropped
\* when an earlier row holds the same three cells (NaN equal to NaN)
DropDuplicates(rows) ==
    LET keep == {i \in 1..Len(rows) :
                    \A j \in 1..(i - 1) : KeyOf(rows[j]) # KeyOf(rows[i])}
        F[k \in 0..Len(rows)] ==
            IF k = 0 THEN <<>>
            ELSE IF k \in keep THEN Append(F[k - 1], rows[k]) ELSE F[k - 1]
    IN  F[Len(rows)]

\* pd.isna(name) or not str(name).strip()
SkipRow(row) ==
    IsNa(row.Recipe_Print_As_Name) \/ Strip(CellStr(row.Recipe_Print_As_Name)) = ""

\* the dict appended for one row
MenuItem(row) ==
    [name |-> Strip(CellStr(row.Recipe_Print_As_Name)),
     hall |-> Strip(CellStr(row.Location_Name)),
     meal |-> Strip(CellStr(row.Menu_Category_Name)),
     calories |-> parse_nutrition_value(row.CaloriesVal).v,
     protein |-> parse_nutrition_value(row.ProteinVal).v,
     carbs |-> parse_nutrition_value(row.TotalCarbVal).v,
     fat |-> parse_nutrition_value(row.TotalFatVal).v,
     fiber |-> parse_nutrition_value(row.DietaryFiberVal).v,
     serving_size |-> IF IsNa(row.ServingSize) THEN "1 serving"
                      ELSE CellStr(row.ServingSize),
     food_group |-> _classify_food_group(CellStr(row.Menu_Category_Name),
                                         CellStr(row.Recipe_Print_As_Name)),
     tags |-> <<>>]

\* the loop over df.iterrows(), from the i-th row on
RECURSIVE MenuLoop(_, _, _)
MenuLoop(rows, i, items) ==
    IF i > Len(rows) THEN items
    ELSE IF SkipRow(rows[i]) THEN MenuLoop(rows, i + 1, items)
         ELSE MenuLoop(rows, i + 1, Append(items, MenuItem(rows[i])))

load_menu_from_csv(rows) == MenuLoop(DropDuplicates(rows), 1, <<>>)

-----------------------------------------------------------------------------
(* The parser's inputs: NaN, numbers, and strings put together from        *)
(* blanks, a body (a numeral or something else), blanks, a suffix (one of  *)
(* the listed unit suffixes in any letter case, or something else) and     *)
(* blanks.  origin records the parts.                                      *)

RECURSIVE CaseVariants(_)
CaseVariants(s) ==
    IF s = "" THEN {""}
    ELSE {c \o r : c \in {CharAt(s, 1), UpperChar(CharAt(s, 1))},
                   r \in CaseVariants(Rest(s))}

ListedSuffixes == UNION {CaseVariants(SUFFIXES[i]) : i \in 1..Len(SUFFIXES)}
OtherSuffixes == {"x", "kg", "gg", "calg", "kcals", "lb"}

RECURSIVE Blanks(_)
Blanks(k) == IF k = 0 THEN "" ELSE " " \o Blanks(k - 1)
Pads == {Blanks(k) : k \in 0..MaxPad}

Tenths == {Dec(n, 1) : n \in (0 - MaxTenths)..MaxTenths}
\* the ways a number is written: as str() writes a float, as str() writes
\* an integer, and with an explicit plus sign
NumeralTexts(v) ==
    {PyStr(NumCell(v, FALSE))}
        \cup (IF v.e = 0 THEN {PyStr(NumCell(v, TRUE))} ELSE {})
        \cup (IF v.m >= 0 THEN {"+" \o PyStr(NumCell(v, FALSE))} ELSE {})
NumeralBodies ==
    {[text |-> t, numeral |-> TRUE, v |-> v] : <<t, v>> \in
        {<<t, v>> \in (UNION {NumeralTexts(w) : w \in Tenths}) \X Tenths :
            t \in NumeralTexts(v)}}
OtherBodies ==
    {[text |-> t, numeral |-> FALSE, v |-> Zero] :
        t \in {"", "abc", "k", "-", ".", "1.2.3", "1 2", "--1"}}

Composed ==
    {[cell |-> StrCell(p1 \o b.text \o p2 \o sfx \o p3),
      origin |-> [numeral |-> b.numeral, v |-> b.v, suffix |-> sfx]] :
        <<p1, b, p2, sfx, p3>> \in
            Pads \X (NumeralBodies \cup OtherBodies) \X Pads
                 \X (ListedSuffixes \cup OtherSuffixes \cup {""}) \X Pads}

\* the cells of section 8 of the specification
Examples ==
    {[cell |-> StrCell("3.2kcal"),
      origin |-> [numeral |-> TRUE, v |-> Dec(32, 1), suffix |-> "kcal"]],
     [cell |-> StrCell("7.6g"),
      origin |-> [numeral |-> TRUE, v |-> Dec(76, 1), suffix |-> "g"]],
     [cell |-> StrCell("150"),
      origin |-> [numeral |-> TRUE, v |-> Dec(150, 0), suffix |-> ""]]}

NotStrings ==
    {[cell |-> NaN, origin |-> [numeral |-> FALSE, v |-> Zero, suffix |-> ""]]}
        \cup {[cell |-> NumCell(v, i),
               origin |-> [numeral |-> TRUE, v |-> v, suffix |-> ""]] :
                  <<v, i>> \in {<<w, j>> \in Tenths \X BOOLEAN : j => w.e = 0}}

ParseInputs == Composed \cup Examples \cup NotStrings

-----------------------------------------------------------------------------
(* Idle values of the variables a specification does not use.              *)

IdleParse == value = NaN /\ origin = [numeral |-> FALSE, v |-> Zero, suffix |-> ""]
                /\ parsed = NotCalled
IdleClass == category = "" /\ name = "" /\ food_group = NotCalled
IdleLoad  == df = <<>> /\ menu = NotCalled
IdleProfile ==
    /\ user_profile = None /\ goals = None /\ daily_targets = None
    /\ onboarding_complete = FALSE /\ activity_day_type = "Training Day"
IdleFile == data_dir_ok = TRUE /\ user_data_file = NoFile
IdleScan ==
    /\ image_source = "None" /\ detections = <<>>
    /\ portion = <<>> /\ scan_add = <<>> /\ items_to_add = <<>>
IdleTotals ==
    /\ selected_date = Today /\ log_totals = NotCalled /\ today_totals = NotCalled
IdleResolve == det_label = "" /\ det_portion = "" /\ estimate = NotCalled
IdlePredict ==
    /\ results_ok = FALSE /\ class_name = "" /\ top1_conf = Zero
    /\ prediction = NotCalled
IdleRange ==
    /\ base_targets = [calories |-> 0] /\ day_type = "Training Day"
    /\ t_range = NotCalled
IdleAgg ==
    side_totals = NotCalled /\ home_totals = NotCalled /\ week_totals = NotCalled
IdleSource ==
    csv_file = NoFile /\ loaded = NotCalled
IdleAgent ==
    client = None /\ chat_history = <<>> /\ response = NotCalled /\ enhanced = NotCalled
IdleApp ==
    page = "Home & Goals" /\ selected_hall = "All" /\ download = NotCalled
    /\ menu_cache = NotCalled /\ loaded_before = NotCalled
    /\ source_changed = FALSE /\ agent_authenticated = FALSE
IdleSess ==
    /\ food_log = <<>> /\ IdleProfile /\ IdleFile /\ IdleScan /\ IdleTotals
    /\ IdleResolve /\ IdlePredict /\ IdleRange /\ IdleAgg /\ IdleSource /\ IdleAgent /\ IdleApp

-----------------------------------------------------------------------------
(* The parser called on one cell.                                          *)

ParseInit ==
    /\ \E in \in ParseInputs : value = in.cell /\ origin = in.origin
    /\ parsed = NotCalled
    /\ IdleClass /\ IdleLoad /\ IdleSess

ParseCall ==
    /\ ~parsed.called
    /\ parsed' = [called |-> TRUE,
                  raises |-> parse_nutrition_value(value).raises,
                  v |-> parse_nutrition_value(value).v]
    /\ UNCHANGED <<value, origin, classVars, loadVars, sessVars>>

ParseNext == ParseCall
SpecParse == ParseInit /\ [][ParseNext]_vars


-----------------------------------------------------------------------------
(* Claims about the parser (checked under SpecParse).                      *)

BlankCell(cell) ==
    \/ cell.kind = "nan"
    \/ cell.kind = "str" /\ \A i \in 1..Len(cell.s) : CharAt(cell.s, i) = " "
\* what is left of the cell once the blanks and one listed suffix are taken
\* away is a numeral
RemainderIsNumeral == origin.numeral /\ origin.suffix \in ListedSuffixes \cup {""}

\* C7: parse_nutrition_value is total: it never raises, and it returns 0.0
\* for an empty, null or blank cell and for every cell whose remainder after
\* suffix stripping is not a valid number (such as 'abc').
C7_ParseTotal ==
    parsed.called =>
        /\ parsed.raises = "none"
        /\ (BlankCell(value) \/ ~RemainderIsNumeral) => parsed.v = Zero
C7_Witness ==
    /\ parsed.called /\ value = StrCell("abc")
    /\ parsed.raises = "none" /\ parsed.v = Zero

\* C8: surrounding blanks and at most one trailing unit suffix (kcal, cal,
\* mg, g, the longer tried before the shorter, in any letter case) are
\* stripped, so parse(n + s) is n for every numeral n and listed suffix s;
\* '3.2kcal' gives 3.2, '7.6g' gives 7.6 and '150' gives 150.0.
C8_SuffixStripped ==
    parsed.called =>
        /\ RemainderIsNumeral => parsed.v = origin.v
        /\ value = StrCell("3.2kcal") => parsed.v = Dec(32, 1)
        /\ value = StrCell("7.6g") => parsed.v = Dec(76, 1)
        /\ value = StrCell("150") => parsed.v = Dec(150, 0)
C8_Witness ==
    /\ parsed.called /\ value = StrCell(" 1.2 KcAl ")
    /\ origin.suffix = "KcAl" /\ parsed.v = Dec(12, 1)


-----------------------------------------------------------------------------
(* The classifier called on one name and one category.                     *)

MaxWords == 2      \* words in a name handed to the classifier

Vocabulary ==
    {"Grilled", "Chicken", "Breast", "Apple", "Slices", "xyzzy", "Rice", "Pie",
     "Sweet Potato", "Steak", "Milk", "Juice"}
RECURSIVE Phrases(_)
Phrases(k) ==
    IF k = 1 THEN Vocabulary
    ELSE Phrases(k - 1) \cup {p \o " " \o w : p \in Phrases(k - 1), w \in Vocabulary}
Names == Phrases(MaxWords) \cup {"Grilled Chicken Breast", "Apple Slices", "xyzzy"}
Categories == {"", "Entrees", "Desserts", "Salad Bar"}

ClassInit ==
    /\ name \in Names /\ category \in Categories
    /\ food_group = NotCalled
    /\ IdleParse /\ IdleLoad /\ IdleSess

ClassCall ==
    /\ ~food_group.called
    /\ food_group' = [called |-> TRUE, group |-> _classify_food_group(category, name)]
    /\ UNCHANGED <<category, name, parseVars, loadVars, sessVars>>

ClassNext == ClassCall
SpecClass == ClassInit /\ [][ClassNext]_vars

-----------------------------------------------------------------------------
(* Claims about the classifier (checked under SpecClass).                  *)

SearchText == Lower(name \o " " \o category)
Groups == 1..Len(FOOD_GROUP_KEYWORDS)
\* the number of keywords of each group that occur in the text
HitsOfGroups(text) ==
    [g \in Groups |->
        Cardinality({k \in 1..Len(FOOD_GROUP_KEYWORDS[g].keywords) :
                        Contains(text, FOOD_GROUP_KEYWORDS[g].keywords[k])})]
TopScore(hits) == CHOOSE n \in {hits[g] : g \in Groups} : \A g \in Groups : hits[g] <= n
FirstTop(hits, top) ==
    CHOOSE g \in Groups : hits[g] = top /\ \A h \in Groups : hits[h] = top => g <= h
TableOrder ==
    <<"Protein", "Grains", "Vegetables", "Fruits", "Dairy", "Fats & Oils",
      "Sweets & Desserts", "Beverages">>
Labels == {TableOrder[i] : i \in 1..Len(TableOrder)} \cup {"Other"}

\* C5: the classifier returns the group with the largest number of keywords
\* occurring in the lowercased 'name category', each keyword counted once;
\* among groups sharing the top score the earliest in the order Protein,
\* Grains, Vegetables, Fruits, Dairy, Fats & Oils, Sweets & Desserts,
\* Beverages wins.  ('Entrees', 'Grilled Chicken Breast') gives Protein and
\* ('', 'Apple Slices') gives Fruits.
C5_TopScoreFirstWins ==
    food_group.called =>
        /\ LET hits == HitsOfGroups(SearchText)
               top == TopScore(hits)
           IN  top > 0 => food_group.group = TableOrder[FirstTop(hits, top)]
        /\ (category = "Entrees" /\ name = "Grilled Chicken Breast")
              => food_group.group = "Protein"
        /\ (category = "" /\ name = "Apple Slices") => food_group.group = "Fruits"
\* a tie between Protein (chicken) and Grains (rice), the later group's
\* keyword coming first in the text
C5_Witness ==
    /\ food_group.called /\ name = "Rice Chicken" /\ category = ""
    /\ HitsOfGroups(SearchText)[1] = 1 /\ HitsOfGroups(SearchText)[2] = 1
    /\ food_group.group = "Protein"

\* C6: the classifier always returns one of the nine labels, and Other
\* exactly when no keyword of any group occurs in the text.
C6_ClosedSetOther ==
    food_group.called =>
        /\ food_group.group \in Labels
        /\ LET hits == HitsOfGroups(SearchText)
           IN  food_group.group = "Other" <=> \A g \in Groups : hits[g] = 0
C6_Witness ==
    /\ food_group.called /\ name = "xyzzy" /\ category = ""
    /\ food_group.group = "Other"


-----------------------------------------------------------------------------
(* The loader called on one table.                                         *)

MaxRows == 3       \* rows of the table handed to the loader

Row(nm, hall, cal, others) ==
    [Recipe_Print_As_Name |-> nm, Location_Name |-> hall,
     Menu_Category_Name |-> StrCell("Lunch"), CaloriesVal |-> cal,
     ProteinVal |-> others[1], TotalCarbVal |-> others[2],
     TotalFatVal |-> others[3], DietaryFiberVal |-> others[4],
     ServingSize |-> others[5]]
Plain == <<StrCell("0.5g"), NumCell(Dec(25, 0), TRUE), StrCell("0.3"), StrCell("4.4 g"),
           StrCell("1 each")>>
Ragged == <<NaN, StrCell("abc"), StrCell(""), NaN, NaN>>
SampleRows ==
    {Row(StrCell("Apple"), StrCell("Bolton"), StrCell("95"), Plain),
     Row(StrCell("Apple"), StrCell("Bolton"), StrCell("80kcal"), Ragged),
     Row(StrCell("Apple "), StrCell("Bolton"), StrCell("95"), Plain),
     Row(StrCell(" "), StrCell("Bolton"), StrCell("95"), Plain),
     Row(NaN, StrCell("Bolton"), StrCell("95"), Plain),
     Row(StrCell("Rice"), StrCell("Bolton"), StrCell("-5"), Plain),
     Row(StrCell("Apple"), StrCell("Snelling"), StrCell("95"), Plain),
     Row(StrCell("Rice"), StrCell("Bolton"), NaN, Ragged)}
Tables == UNION {[1..n -> SampleRows] : n \in 0..MaxRows}

LoadInit ==
    /\ df \in Tables
    /\ menu = NotCalled
    /\ IdleParse /\ IdleClass /\ IdleSess

LoadCall ==
    /\ ~menu.called
    /\ menu' = [called |-> TRUE, items |-> load_menu_from_csv(df)]
    /\ UNCHANGED <<df, parseVars, classVars, sessVars>>

LoadNext == LoadCall
SpecLoad == LoadInit /\ [][LoadNext]_vars

-----------------------------------------------------------------------------
(* Claims about the loader (checked under SpecLoad).                       *)

BlankName(row) == BlankCell(row.Recipe_Print_As_Name)
Blanks_ == {i \in 1..Len(df) : BlankName(df[i])}
Named == (1..Len(df)) \ Blanks_

\* the (name, hall, meal) key of the item a row stands for
ItemKey(row) == <<Strip(CellStr(row.Recipe_Print_As_Name)),
                  Strip(CellStr(row.Location_Name)),
                  Strip(CellStr(row.Menu_Category_Name))>>
\* the rows that carry a name and collide with an earlier such row
Duplicates == {i \in Named : \E j \in Named : j < i /\ ItemKey(df[j]) = ItemKey(df[i])}
FirstOfKey == Named \ Duplicates
\* the k-th smallest member of a set of row numbers
Kth(S, k) == CHOOSE i \in S : Cardinality({j \in S : j < i}) = k - 1

\* C2: the catalog holds no two items with the same (name, hall, meal) as
\* stored in the items.
C2_NoDuplicateKeys ==
    menu.called =>
        \A i, j \in 1..Len(menu.items) :
            i # j => <<menu.items[i].name, menu.items[i].hall, menu.items[i].meal>>
                        # <<menu.items[j].name, menu.items[j].hall, menu.items[j].meal>>

\* C3: the catalog is the input-order subsequence of the source rows: for
\* each (name, hall, meal) key the item kept is the first row with that key,
\* the later colliding rows are dropped whatever their nutrition values, and
\* the items of the surviving rows appear in the order of their rows.
C3_FirstSeenInOrder ==
    menu.called =>
        /\ Len(menu.items) = Cardinality(FirstOfKey)
        /\ \A k \in 1..Cardinality(FirstOfKey) :
              k <= Len(menu.items) /\ menu.items[k] = MenuItem(df[Kth(FirstOfKey, k)])

\* C4: no item comes from a blank-name row, and the catalog length is the
\* number of rows minus the blank-name rows minus the duplicate rows.
C4_LengthAsStated ==
    menu.called =>
        /\ \A k \in 1..Len(menu.items) : menu.items[k].name # ""
        /\ Len(menu.items) = Len(df) - Cardinality(Blanks_) - Cardinality(Duplicates)

\* What the loader does keep: the rows that carry a name and are the first
\* to hold their three key cells exactly as read (before any trimming), in
\* row order.
RawRepeats == {i \in 1..Len(df) : \E j \in 1..(i - 1) : KeyOf(df[j]) = KeyOf(df[i])}
RawSurvivors == Named \ RawRepeats
FirstOfRawKeyInOrder ==
    menu.called =>
        /\ Len(menu.items) = Cardinality(RawSurvivors)
        /\ \A k \in 1..Len(menu.items) : menu.items[k] = MenuItem(df[Kth(RawSurvivors, k)])

\* C9: every calories, protein, carbs, fat and fiber value of every catalog
\* item is greater than or equal to 0, whatever the source cells hold.
C9_NonNegativeMacros ==
    menu.called =>
        \A k \in 1..Len(menu.items) :
            /\ DecNonNeg(menu.items[k].calories) /\ DecNonNeg(menu.items[k].protein)
            /\ DecNonNeg(menu.items[k].carbs) /\ DecNonNeg(menu.items[k].fat)
            /\ DecNonNeg(menu.items[k].fiber)

-----------------------------------------------------------------------------
(* Persistence: save_user_data writes the six session keys to              *)
(* data/user_data.json as a JSON document, or does nothing when the        *)
(* directory or the file cannot be written; load_user_data reads the       *)
(* document back.  The document keeps the nesting of the data; each of     *)
(* its leaves is the text json.dump writes for the value: null, true or    *)
(* false, a quoted string, the digits of an int, the repr of a float.      *)
(* json.dump chooses the text by the type of the value; the model, which   *)
(* has no types, chooses it by the key.  The strings of the session need   *)
(* no escapes.                                                             *)

JText(s) == [json |-> s]
JNull == JText("null")
json_str(s) == JText("\"" \o s \o "\"")
json_int(n) == JText(NatToStr(n))
json_float(x) == JText(PyStr(NumCell(x, FALSE)))
json_bool(b) == JText(IF b THEN "true" ELSE "false")

ListKeys == {"tags", "dining_preference", "dietary_restrictions"}
EntryFloats == {"calories", "protein", "carbs", "fat", "fiber", "servings"}
ProfileInts == {"weight", "height_ft", "height_in"}
TargetInts == {"calories", "protein", "carbs", "fat"}

\* json.dump of a dict or of None
json_dict(d, floats, ints) ==
    IF d = None THEN JNull
    ELSE [k \in DOMAIN d |->
            CASE k \in floats -> json_float(d[k])
              [] k \in ints -> json_int(d[k])
              [] k \in ListKeys -> [i \in 1..Len(d[k]) |-> json_str(d[k][i])]
              [] OTHER -> json_str(d[k])]

\* the str of a JSON string, the int or float of a JSON number
py_str(tok) == SubSeq(tok.json, 2, Len(tok.json) - 1)
py_number(tok) ==
    IF IndexIn(tok.json, ".") > 0 THEN PyFloat(tok.json).v ELSE StrToNat(tok.json)

\* json.load of a dict or of null
py_dict(d, numbers) ==
    IF d = JNull THEN None
    ELSE [k \in DOMAIN d |->
            CASE k \in numbers -> py_number(d[k])
              [] k \in ListKeys -> [i \in 1..Len(d[k]) |-> py_str(d[k][i])]
              [] OTHER -> py_str(d[k])]

json_dump(data) ==
    [user_profile |-> json_dict(data.user_profile, {}, ProfileInts),
     goals |-> json_dict(data.goals, {}, {}),
     daily_targets |-> json_dict(data.daily_targets, {}, TargetInts),
     food_log |-> [i \in 1..Len(data.food_log) |->
                      json_dict(data.food_log[i], EntryFloats, {})],
     onboarding_complete |-> json_bool(data.onboarding_complete),
     activity_day_type |-> json_str(data.activity_day_type)]

json_load(doc) ==
    [user_profile |-> py_dict(doc.user_profile, ProfileInts),
     goals |-> py_dict(doc.goals, {}),
     daily_targets |-> py_dict(doc.daily_targets, TargetInts),
     food_log |-> [i \in 1..Len(doc.food_log) |-> py_dict(doc.food_log[i], EntryFloats)],
     onboarding_complete |-> (doc.onboarding_complete = json_bool(TRUE)),
     activity_day_type |-> py_str(doc.activity_day_type)]

\* a save that writes nothing
save_user_data_skipped == UNCHANGED user_data_file

\* It is used inside actions, after the session variables of the next
\* state are fixed.
save_user_data ==
    user_data_file' =
        IF data_dir_ok
        THEN [exists |-> TRUE,
              data |-> json_dump([user_profile |-> user_profile', goals |-> goals',
                                  daily_targets |-> daily_targets', food_log |-> food_log',
                                  onboarding_complete |-> onboarding_complete',
                                  activity_day_type |-> activity_day_type'])]
        ELSE user_data_file

\* json.load(f) when the file exists, else None
load_user_data(file) == IF file.exists THEN json_load(file.data) ELSE None

\* The values init_session_state puts into a new session: saved[key] when
\* saved holds the key with a value other than None, else the default.
\* (Of the values of a saved file only the profile, the goals and the
\* targets can be None.)
SessionDefaults ==
    [user_profile |-> None, goals |-> None, daily_targets |-> None,
     food_log |-> <<>>, chat_history |-> <<>>, onboarding_complete |-> FALSE,
     activity_day_type |-> "Training Day"]
init_session_state(saved) ==
    [key \in DOMAIN SessionDefaults |->
        IF saved # None /\ key \in DOMAIN saved
           /\ ~(key \in {"user_profile", "goals", "daily_targets"} /\ saved[key] = None)
        THEN saved[key] ELSE SessionDefaults[key]]

-----------------------------------------------------------------------------
(* The Food Scanner page.                                                  *)

FOOD_NUTRITION_DB == <<
    [label |-> "broccoli", calories |-> Dec(55, 0), protein |-> Dec(37, 1), carbs |-> Dec(112, 1),
     fat |-> Dec(6, 1), fiber |-> Dec(51, 1), food_group |-> "Vegetables"],
    [label |-> "carrot", calories |-> Dec(41, 0), protein |-> Dec(9, 1), carbs |-> Dec(96, 1),
     fat |-> Dec(2, 1), fiber |-> Dec(28, 1), food_group |-> "Vegetables"],
    [label |-> "apple", calories |-> Dec(95, 0), protein |-> Dec(5, 1), carbs |-> Dec(251, 1),
     fat |-> Dec(3, 1), fiber |-> Dec(44, 1), food_group |-> "Fruits"],
    [label |-> "orange", calories |-> Dec(62, 0), protein |-> Dec(12, 1), carbs |-> Dec(154, 1),
     fat |-> Dec(2, 1), fiber |-> Dec(31, 1), food_group |-> "Fruits"],
    [label |-> "banana", calories |-> Dec(105, 0), protein |-> Dec(13, 1), carbs |-> Dec(270, 1),
     fat |-> Dec(4, 1), fiber |-> Dec(31, 1), food_group |-> "Fruits"],
    [label |-> "tomato", calories |-> Dec(22, 0), protein |-> Dec(11, 1), carbs |-> Dec(48, 1),
     fat |-> Dec(2, 1), fiber |-> Dec(15, 1), food_group |-> "Vegetables"]
>>

PORTION_MULTIPLIERS == <<
    [portion |-> "Small (half cup)", mult |-> Dec(5, 1)],
    [portion |-> "Medium (1 cup)", mult |-> Dec(10, 1)],
    [portion |-> "Large (1.5 cups)", mult |-> Dec(15, 1)],
    [portion |-> "Extra Large (2 cups)", mult |-> Dec(20, 1)],
    [portion |-> "1 piece / whole item", mult |-> Dec(10, 1)]
>>

GENERIC_NUTRITION_zero ==
    [calories |-> Zero, protein |-> Zero, carbs |-> Zero,
     fat |-> Zero, fiber |-> Zero, food_group |-> "Other"]
GENERIC_NUTRITION ==
    [calories |-> Dec(50, 0), protein |-> Dec(2, 0), carbs |-> Dec(10, 0),
     fat |-> Dec(1, 0), fiber |-> Dec(2, 0), food_group |-> "Other"]

InTable(food_name) ==
    \E i \in 1..Len(FOOD_NUTRITION_DB) : FOOD_NUTRITION_DB[i].label = food_name

\* FOOD_NUTRITION_DB.get(food_name, {...})
NutritionOf(food_name) ==
    IF InTable(food_name)
    THEN FOOD_NUTRITION_DB[CHOOSE i \in 1..Len(FOOD_NUTRITION_DB) :
                               FOOD_NUTRITION_DB[i].label = food_name]
    ELSE GENERIC_NUTRITION

\* list(PORTION_MULTIPLIERS.keys())
PortionKeys == [i \in 1..Len(PORTION_MULTIPLIERS) |-> PORTION_MULTIPLIERS[i].portion]

\* PORTION_MULTIPLIERS[portion]
MultOf(p) ==
    PORTION_MULTIPLIERS[CHOOSE i \in 1..Len(PORTION_MULTIPLIERS) :
                            PORTION_MULTIPLIERS[i].portion = p].mult

\* str.title(): a letter that follows a letter is lowered, any other letter
\* is raised.
RECURSIVE TitleFrom(_, _)
TitleFrom(s, after_letter) ==
    IF s = "" THEN ""
    ELSE LET c == CharAt(s, 1)
             letter == IsLetter(c)
         IN  (IF ~letter THEN c
              ELSE IF after_letter THEN LowerChar(c) ELSE UpperChar(c))
             \o TitleFrom(Rest(s), letter)
Title(s) == TitleFrom(s, FALSE)

\* round(x): to the nearest integer, a tie to the even one
PyRound(x) ==
    LET unit == Pow10(x.e)
        q == x.m \div unit
        r == x.m % unit
    IN  Dec(IF 2 * r > unit \/ (2 * r = unit /\ q % 2 = 1) THEN q + 1 ELSE q, 0)

\* The estimate with its calories rounded to an integer.
Estimate_rounded(det, p) ==
    LET nutrition == NutritionOf(det.class_name)
        mult == MultOf(p)
    IN  [name |-> Title(det.class_name),
         calories |-> PyRound(DecMul(nutrition.calories, mult)),
         protein |-> DecMul(nutrition.protein, mult),
         carbs |-> DecMul(nutrition.carbs, mult),
         fat |-> DecMul(nutrition.fat, mult),
         fiber |-> DecMul(nutrition.fiber, mult),
         food_group |-> nutrition.food_group,
         portion |-> p]
\* The dict appended to items_to_add for one detection.
Estimate(det, p) ==
    LET nutrition == NutritionOf(det.class_name)
        mult == MultOf(p)
    IN  [name |-> Title(det.class_name),
         calories |-> DecMul(nutrition.calories, mult),
         protein |-> DecMul(nutrition.protein, mult),
         carbs |-> DecMul(nutrition.carbs, mult),
         fat |-> DecMul(nutrition.fat, mult),
         fiber |-> DecMul(nutrition.fiber, mult),
         food_group |-> nutrition.food_group,
         portion |-> p]

\* the loop appending an estimate whether or not the Add box is checked
RECURSIVE ItemsLoop_unchecked_too(_, _, _, _, _)
ItemsLoop_unchecked_too(dets, portions, adds, idx, items) ==
    IF idx > Len(dets) THEN items
    ELSE ItemsLoop_unchecked_too(dets, portions, adds, idx + 1,
                                 Append(items, Estimate(dets[idx], portions[idx])))
\* for idx, det in enumerate(detections): ... if st.checkbox("Add", ...):
\*     items_to_add.append({...})
RECURSIVE ItemsLoop(_, _, _, _, _)
ItemsLoop(dets, portions, adds, idx, items) ==
    IF idx > Len(dets) THEN items
    ELSE ItemsLoop(dets, portions, adds, idx + 1,
                   IF adds[idx] THEN Append(items, Estimate(dets[idx], portions[idx]))
                   ELSE items)
ItemsToAdd(dets, portions, adds) == ItemsLoop(dets, portions, adds, 1, <<>>)

\* The entry appended to the food log for one item of items_to_add.
ScannedEntry(item) ==
    [date |-> Today, time |-> NowHM,
     name |-> item.name \o " (" \o item.portion \o ")",
     hall |-> "Scanned", meal |-> "Scanned",
     calories |-> item.calories, protein |-> item.protein, carbs |-> item.carbs,
     fat |-> item.fat, fiber |-> item.fiber, food_group |-> item.food_group,
     serving_size |-> item.portion, servings |-> One, tags |-> <<"scanned">>]


-----------------------------------------------------------------------------
(* Daily totals: the Food Log page (for the date of its View date input)   *)
(* and the Ask the Agent page (for today).  The sums are exact; the         *)
(* rounding of binary floating point is not modelled.                      *)

Macros == <<"calories", "protein", "carbs", "fat", "fiber">>

\* e.get(k, default)
Get(e, k, default) == IF k \in DOMAIN e THEN e[k] ELSE default

\* the log without the date filter
DayLog_any_date(log, d) == log
\* [e for e in food_log if e.get('date') == d]
DayLog(log, d) == SelectSeq(log, LAMBDA e : "date" \in DOMAIN e /\ e.date = d)

\* sum(float(e[macro]) * e.get('servings', 1) for e in day_log), where the
\* pages read the macro as e[macro] or e.get(macro, 0): an entry of this
\* program always carries calories, protein, carbs and fat.
RECURSIVE SumMacro(_, _, _, _)
SumMacro(day_log, macro, i, acc) ==
    IF i > Len(day_log) THEN acc
    ELSE SumMacro(day_log, macro, i + 1,
                  DecAdd(acc, DecMul(Get(day_log[i], macro, Zero),
                                     Get(day_log[i], "servings", One))))

MacroSums(day_log) == [k \in {Macros[i] : i \in 1..Len(Macros)} |->
                          SumMacro(day_log, k, 1, Zero)]

\* The Food Log page computes totals only inside "if day_log:".
FoodLogTotals(log, d) ==
    LET day_log == DayLog(log, d)
    IN  IF day_log = <<>> THEN [called |-> TRUE, shown |-> FALSE, totals |-> MacroSums(<<>>)]
        ELSE [called |-> TRUE, shown |-> TRUE, totals |-> MacroSums(day_log)]

TodayTotals(log) == [called |-> TRUE, totals |-> MacroSums(DayLog(log, Today))]

-----------------------------------------------------------------------------
(* Specification of the totals: a food log and a view date are drawn, the  *)
(* two pages compute their totals.                                         *)

MaxEntries == 3    \* the food logs drawn for the totals hold at most MaxEntries entries
MaxLog == 2        \* a session's food log grows to at most MaxLog entries

Yesterday == "2026-01-01"
EarlierDay == "2025-12-31"
Tomorrow == "2026-01-03"
ViewDates == {EarlierDay, Yesterday, Today, Tomorrow}

\* An entry as the Dining Finder writes it (servings 1, fiber present).
DiningEntry(date, nm, cal, protein, carbs, fat, fiber) ==
    [date |-> date, time |-> NowHM, name |-> nm, hall |-> "Bolton", meal |-> "Lunch",
     calories |-> cal, protein |-> protein, carbs |-> carbs, fat |-> fat,
     fiber |-> fiber, food_group |-> "Other", serving_size |-> "1 serving",
     servings |-> One, tags |-> <<>>]

\* The same entry after the Servings input of the Food Log page was changed.
WithServings(e, n) == [e EXCEPT !.servings = n]

\* An entry of a saved file that carries neither servings nor fiber.
Without(e, keys) == [k \in DOMAIN e \ keys |-> e[k]]

LogEntries ==
    {DiningEntry(Yesterday, "Grilled Chicken", Dec(200, 0), Dec(305, 1), Zero, Dec(7, 0), Zero),
     WithServings(DiningEntry(Yesterday, "Rice", Dec(100, 0), Dec(21, 1), Dec(223, 1),
                              Dec(2, 1), Dec(3, 1)), Dec(2, 0)),
     DiningEntry(Today, "Apple Slices", Dec(50, 0), Dec(3, 1), Dec(13, 0), Dec(1, 1), Dec(24, 1)),
     Without(DiningEntry(Today, "Milk", Dec(103, 0), Dec(8, 0), Dec(12, 0), Dec(24, 1), Zero),
             {"servings", "fiber"}),
     WithServings(DiningEntry(Yesterday, "Broccoli", Dec(275, 1), Dec(185, 2), Dec(56, 1),
                              Dec(3, 1), Dec(255, 2)), Dec(5, 1)),
     WithServings(DiningEntry(EarlierDay, "Steak", Dec(300, 0), Dec(26, 0), Zero,
                              Dec(21, 0), Zero), Dec(15, 1))}

TotalsLogs == UNION {[1..n -> LogEntries] : n \in 0..MaxEntries}

TotalsInit ==
    /\ food_log \in TotalsLogs
    /\ selected_date \in ViewDates
    /\ log_totals = NotCalled /\ today_totals = NotCalled
    /\ IdleProfile /\ IdleFile /\ IdleScan /\ IdleResolve /\ IdlePredict
    /\ IdleRange /\ IdleAgg /\ IdleSource /\ IdleAgent /\ IdleApp /\ IdleParse /\ IdleClass /\ IdleLoad

ViewFoodLog ==
    /\ ~log_totals.called
    /\ log_totals' = FoodLogTotals(food_log, selected_date)
    /\ UNCHANGED <<food_log, selected_date, today_totals, profileVars, fileVars,
                   scanVars, resolveVars, predictVars, rangeVars, aggVars, sourceVars, agentVars, appVars, parseVars,
                   classVars, loadVars>>

AskAgent ==
    /\ ~today_totals.called
    /\ today_totals' = TodayTotals(food_log)
    /\ UNCHANGED <<food_log, selected_date, log_totals, profileVars, fileVars,
                   scanVars, resolveVars, predictVars, rangeVars, aggVars, sourceVars, agentVars, appVars, parseVars,
                   classVars, loadVars>>

TotalsNext == ViewFoodLog \/ AskAgent
SpecTotals == TotalsInit /\ [][TotalsNext]_vars

-----------------------------------------------------------------------------
(* Claims about the totals.                                                *)

\* entry[macro] * entry.servings, servings counting as 1 when absent
Share(e, macro) == DecMul(Get(e, macro, Zero), Get(e, "servings", One))

\* The sum of the shares of the entries dated d, taken from the last entry
\* of the log backwards.
RECURSIVE SumOfDate(_, _, _)
SumOfDate(log, d, macro) ==
    IF log = <<>> THEN Zero
    ELSE LET e == log[Len(log)]
             before == SumOfDate(SubSeq(log, 1, Len(log) - 1), d, macro)
         IN  IF e.date = d THEN DecAdd(before, Share(e, macro)) ELSE before

IsExampleLog ==
    /\ Len(food_log) = 3
    /\ food_log[1].date = Yesterday /\ food_log[1].calories = Dec(200, 0)
    /\ Get(food_log[1], "servings", One) = Dec(1, 0)
    /\ food_log[2].date = Yesterday /\ food_log[2].calories = Dec(100, 0)
    /\ Get(food_log[2], "servings", One) = Dec(2, 0)
    /\ food_log[3].date = Today /\ food_log[3].calories = Dec(50, 0)
    /\ Get(food_log[3], "servings", One) = Dec(1, 0)

\* C1: for every food log and every query date, the daily total of each
\* macro is the sum of macro * servings (servings 1 when absent) over
\* exactly the entries of that date; for the log (200, 1, D1), (100, 2, D1),
\* (50, 1, D2) the calories total is 400 for D1 and 50 for D2.
C1_DailyTotals ==
    /\ (log_totals.called /\ log_totals.shown) =>
          \A i \in 1..Len(Macros) :
              log_totals.totals[Macros[i]] = SumOfDate(food_log, selected_date, Macros[i])
    /\ today_totals.called =>
          \A i \in 1..Len(Macros) :
              today_totals.totals[Macros[i]] = SumOfDate(food_log, Today, Macros[i])
    /\ (IsExampleLog /\ log_totals.called /\ selected_date = Yesterday) =>
          log_totals.shown /\ log_totals.totals.calories = Dec(400, 0)
    /\ (IsExampleLog /\ log_totals.called /\ selected_date = Today) =>
          log_totals.shown /\ log_totals.totals.calories = Dec(50, 0)
    /\ (IsExampleLog /\ today_totals.called) => today_totals.totals.calories = Dec(50, 0)

C1_Witness ==
    /\ IsExampleLog /\ selected_date = Yesterday
    /\ log_totals.called /\ log_totals.shown /\ log_totals.totals.calories = Dec(400, 0)
    /\ today_totals.called /\ today_totals.totals.calories = Dec(50, 0)

-----------------------------------------------------------------------------
(* Specification of the Food Scanner page.  The detector is not part of    *)
(* the sources: what it returns for a photo is an input.  A photo is put   *)
(* on an empty page, so the widgets of its detections start from their     *)
(* defaults (portion index 1, Add checked).                                *)

Detection(label) == [class_name |-> label, confidence |-> Dec(9, 1)]
DetectorOutputs ==
    {<<>>,
     <<Detection("broccoli")>>,
     <<Detection("broccoli"), Detection("pizza")>>}

ScanInit ==
    /\ food_log = <<>>
    /\ IdleProfile
    /\ data_dir_ok \in BOOLEAN /\ user_data_file = NoFile
    /\ IdleScan /\ IdleTotals /\ IdleResolve /\ IdlePredict /\ IdleRange /\ IdleAgg /\ IdleSource /\ IdleAgent /\ IdleApp
    /\ IdleParse /\ IdleClass /\ IdleLoad

ScanFrame ==
    UNCHANGED <<profileVars, data_dir_ok, totalVars, resolveVars, predictVars,
                rangeVars, aggVars, sourceVars, agentVars, appVars, parseVars, classVars, loadVars>>

ScanUploadOf(outputs) ==
    /\ image_source = "None"
    /\ image_source' = "photo"
    /\ detections' \in outputs
    /\ portion' = [idx \in 1..Len(detections') |-> PortionKeys[2]]
    /\ scan_add' = [idx \in 1..Len(detections') |-> TRUE]
    /\ items_to_add' = ItemsToAdd(detections', portion', scan_add')
    /\ UNCHANGED <<food_log, user_data_file>>
    /\ ScanFrame

ScanUpload == ScanUploadOf(DetectorOutputs)

ScanChoosePortion ==
    /\ \E idx \in 1..Len(detections) :
         \E k \in 1..Len(PortionKeys) :
            /\ PortionKeys[k] # portion[idx]
            /\ portion' = [portion EXCEPT ![idx] = PortionKeys[k]]
    /\ items_to_add' = ItemsToAdd(detections, portion', scan_add)
    /\ UNCHANGED <<image_source, detections, scan_add, food_log, user_data_file>>
    /\ ScanFrame

ScanToggleAdd ==
    /\ \E idx \in 1..Len(detections) :
         scan_add' = [scan_add EXCEPT ![idx] = ~scan_add[idx]]
    /\ items_to_add' = ItemsToAdd(detections, portion, scan_add')
    /\ UNCHANGED <<image_source, detections, portion, food_log, user_data_file>>
    /\ ScanFrame

\* if items_to_add and st.button("Add Selected to Food Log"): the run that
\* handles the press has collected items_to_add from the same widgets.
ScanAddSelected ==
    /\ items_to_add # <<>>
    /\ Len(food_log) + Len(items_to_add) <= MaxLog
    /\ food_log' = food_log \o [k \in 1..Len(items_to_add) |-> ScannedEntry(items_to_add[k])]
    /\ UNCHANGED <<scanVars>>
    /\ ScanFrame
    /\ save_user_data

ScanRemovePhoto ==
    /\ image_source = "photo"
    /\ image_source' = "None"
    /\ detections' = <<>> /\ portion' = <<>> /\ scan_add' = <<>> /\ items_to_add' = <<>>
    /\ UNCHANGED <<food_log, user_data_file>>
    /\ ScanFrame

ScanNext ==
    \/ ScanUpload
    \/ ScanChoosePortion
    \/ ScanToggleAdd
    \/ ScanAddSelected
    \/ ScanRemovePhoto
SpecScan == ScanInit /\ [][ScanNext]_vars

-----------------------------------------------------------------------------
(* Claims about the scanner's estimate.                                    *)

\* The detections whose Add box is checked, in page order.
CheckedIdx == SelectSeq([idx \in 1..Len(detections) |-> idx], LAMBDA idx : scan_add[idx])

\* The base values of a label of the table, found by its position.
BaseOf(label) ==
    FOOD_NUTRITION_DB[CHOOSE i \in 1..Len(FOOD_NUTRITION_DB) :
                          FOOD_NUTRITION_DB[i].label = label]

\* The multipliers of the portion table, as the claim lists them.
TableMultipliers == <<Dec(5, 1), Dec(1, 0), Dec(15, 1), Dec(2, 0), Dec(1, 0)>>
MultiplierOf(p) == TableMultipliers[CHOOSE k \in 1..Len(PortionKeys) : PortionKeys[k] = p]

\* Every estimate of a label of the table is base * m in each macro, and
\* carries the table's food group.
ScaledByTable ==
    /\ Len(items_to_add) = Len(CheckedIdx)
    /\ \A k \in 1..Len(items_to_add) :
         LET idx == CheckedIdx[k]
             label == detections[idx].class_name
             m == MultiplierOf(portion[idx])
             item == items_to_add[k]
         IN  InTable(label) =>
               /\ \A i \in 1..Len(Macros) :
                     item[Macros[i]] = DecMul(BaseOf(label)[Macros[i]], m)
               /\ item.food_group = BaseOf(label).food_group

IsBroccoliAtHalf(k) ==
    /\ k \in 1..Len(items_to_add) /\ k \in 1..Len(CheckedIdx)
    /\ detections[CheckedIdx[k]].class_name = "broccoli"
    /\ MultiplierOf(portion[CheckedIdx[k]]) = Dec(5, 1)

EntryOfDetection(idx) ==
    ScannedEntry(Estimate(detections[idx], portion[idx]))

\* C13: uploading a photo, resolving the detections, choosing a portion
\* and ticking or unticking an Add box leave food_log unchanged; food_log
\* changes only by the press of Add Selected, which appends exactly one
\* entry per detection whose Add box is checked, in page order, and none
\* for an unchecked one.
C13_OnlyAddSelectedAppends ==
    [][/\ (scanVars' # scanVars) => food_log' = food_log
       /\ (food_log' # food_log) =>
             /\ CheckedIdx # <<>>
             /\ Len(food_log') = Len(food_log) + Len(CheckedIdx)
             /\ SubSeq(food_log', 1, Len(food_log)) = food_log
             /\ \A k \in 1..Len(CheckedIdx) :
                   food_log'[Len(food_log) + k] = EntryOfDetection(CheckedIdx[k])]_vars

\* two detections, the second unticked, and one entry appended
C13_Witness ==
    /\ Len(detections) = 2 /\ scan_add = <<TRUE, FALSE>>
    /\ Len(food_log) = 1
    /\ food_log[1] = EntryOfDetection(1)
    /\ food_log[1].tags = <<"scanned">>

-----------------------------------------------------------------------------
(* src/vision.py: FoodClassifier.predict.  The YOLO model is outside the   *)
(* sources: whether it returned results, the name of its top-1 class and   *)
(* the top-1 confidence are inputs.                                        *)

FOOD_NUTRITION == <<
    [food |-> "baked potato", calories |-> Dec(161, 0), protein |-> Dec(43, 1), carbs |-> Dec(366, 1),
     fat |-> Dec(2, 1), fiber |-> Dec(38, 1), food_group |-> "Grains & Starches"],
    [food |-> "black beans", calories |-> Dec(227, 0), protein |-> Dec(152, 1), carbs |-> Dec(408, 1),
     fat |-> Dec(9, 1), fiber |-> Dec(150, 1), food_group |-> "Protein"],
    [food |-> "broccoli", calories |-> Dec(55, 0), protein |-> Dec(37, 1), carbs |-> Dec(112, 1),
     fat |-> Dec(6, 1), fiber |-> Dec(51, 1), food_group |-> "Vegetables"],
    [food |-> "cherry tomato", calories |-> Dec(27, 0), protein |-> Dec(13, 1), carbs |-> Dec(58, 1),
     fat |-> Dec(3, 1), fiber |-> Dec(18, 1), food_group |-> "Vegetables"],
    [food |-> "chickpea", calories |-> Dec(269, 0), protein |-> Dec(145, 1), carbs |-> Dec(450, 1),
     fat |-> Dec(42, 1), fiber |-> Dec(125, 1), food_group |-> "Protein"],
    [food |-> "cucumber", calories |-> Dec(16, 0), protein |-> Dec(7, 1), carbs |-> Dec(31, 1),
     fat |-> Dec(2, 1), fiber |-> Dec(5, 1), food_group |-> "Vegetables"],
    [food |-> "grapefruit", calories |-> Dec(74, 0), protein |-> Dec(15, 1), carbs |-> Dec(186, 1),
     fat |-> Dec(2, 1), fiber |-> Dec(25, 1), food_group |-> "Fruits"],
    [food |-> "grapes", calories |-> Dec(104, 0), protein |-> Dec(11, 1), carbs |-> Dec(273, 1),
     fat |-> Dec(2, 1), fiber |-> Dec(14, 1), food_group |-> "Fruits"],
    [food |-> "hash browns", calories |-> Dec(326, 0), protein |-> Dec(32, 1), carbs |-> Dec(351, 1),
     fat |-> Dec(200, 1), fiber |-> Dec(32, 1), food_group |-> "Grains & Starches"],
    [food |-> "lettuce", calories |-> Dec(5, 0), protein |-> Dec(5, 1), carbs |-> Dec(10, 1),
     fat |-> Dec(1, 1), fiber |-> Dec(5, 1), food_group |-> "Vegetables"],
    [food |-> "mixed plate", calories |-> Dec(250, 0), protein |-> Dec(120, 1), carbs |-> Dec(300, 1),
     fat |-> Dec(80, 1), fiber |-> Dec(40, 1), food_group |-> "Mixed"],
    [food |-> "peach slices", calories |-> Dec(60, 0), protein |-> Dec(14, 1), carbs |-> Dec(147, 1),
     fat |-> Dec(4, 1), fiber |-> Dec(23, 1), food_group |-> "Fruits"],
    [food |-> "pineapple chunks", calories |-> Dec(82, 0), protein |-> Dec(9, 1), carbs |-> Dec(216, 1),
     fat |-> Dec(2, 1), fiber |-> Dec(23, 1), food_group |-> "Fruits"],
    [food |-> "red bell peppers", calories |-> Dec(46, 0), protein |-> Dec(15, 1), carbs |-> Dec(90, 1),
     fat |-> Dec(5, 1), fiber |-> Dec(31, 1), food_group |-> "Vegetables"],
    [food |-> "sweet potato", calories |-> Dec(180, 0), protein |-> Dec(40, 1), carbs |-> Dec(414, 1),
     fat |-> Dec(3, 1), fiber |-> Dec(66, 1), food_group |-> "Grains & Starches"]
>>

\* The literals of FOOD_NUTRITION whose binary double lies below, or above,
\* the decimal written in the source; the other literals are exact.
DoubleBelow ==
    {Dec(3, 1), Dec(6, 1), Dec(7, 1), Dec(14, 1), Dec(23, 1), Dec(38, 1),
     Dec(43, 1), Dec(51, 1), Dec(58, 1), Dec(66, 1), Dec(112, 1),
     Dec(147, 1), Dec(152, 1), Dec(408, 1), Dec(414, 1)}
DoubleAbove ==
    {Dec(1, 1), Dec(2, 1), Dec(4, 1), Dec(9, 1), Dec(11, 1), Dec(13, 1),
     Dec(18, 1), Dec(31, 1), Dec(32, 1), Dec(37, 1), Dec(42, 1),
     Dec(186, 1), Dec(216, 1), Dec(273, 1), Dec(351, 1), Dec(366, 1)}

\* On which side of the decimal x the double of a literal lies.
SideOf(x) == IF x \in DoubleBelow THEN -1 ELSE IF x \in DoubleAbove THEN 1 ELSE 0

\* round(v, ndigits) of the double v nearest to the decimal x: the nearest
\* decimal with ndigits places; when x lies halfway, the double's side
\* decides, and an exact double goes to the even neighbour.
RoundTo(x, ndigits, side) ==
    IF x.e <= ndigits THEN x
    ELSE LET unit == Pow10(x.e - ndigits)
             q == x.m \div unit
             r == x.m % unit
             up == \/ 2 * r > unit
                   \/ 2 * r = unit /\ (side > 0 \/ (side = 0 /\ q % 2 = 1))
         IN  Dec(IF up THEN q + 1 ELSE q, ndigits)

\* x < y
DecLess(x, y) == AtScale(x, Max2(x.e, y.e)) < AtScale(y, Max2(x.e, y.e))

\* str.replace("_", " ")
RECURSIVE ReplaceUnderscores(_)
ReplaceUnderscores(s) ==
    IF s = "" THEN ""
    ELSE (IF CharAt(s, 1) = "_" THEN " " ELSE CharAt(s, 1)) \o ReplaceUnderscores(Rest(s))

CutSuffix(s, suffix) == SubSeq(s, 1, Len(s) - Len(suffix))

_parse_class_name(cn) ==
    IF EndsWith(cn, "_half_cup")
    THEN [food |-> ReplaceUnderscores(CutSuffix(cn, "_half_cup")), portion |-> Dec(5, 1)]
    ELSE IF EndsWith(cn, "_1_cup")
    THEN [food |-> ReplaceUnderscores(CutSuffix(cn, "_1_cup")), portion |-> One]
    ELSE [food |-> ReplaceUnderscores(cn), portion |-> One]

PREDICT_GENERIC ==
    [calories |-> Dec(80, 0), protein |-> Dec(3, 0), carbs |-> Dec(15, 0),
     fat |-> Dec(2, 0), fiber |-> Dec(2, 0), food_group |-> "Other"]

InVisionTable(food_name) ==
    \E i \in 1..Len(FOOD_NUTRITION) : FOOD_NUTRITION[i].food = food_name

\* FOOD_NUTRITION.get(food_name, {...})
BaseNutrition(food_name) ==
    IF InVisionTable(food_name)
    THEN FOOD_NUTRITION[CHOOSE i \in 1..Len(FOOD_NUTRITION) :
                            FOOD_NUTRITION[i].food = food_name]
    ELSE PREDICT_GENERIC

\* a threshold of 0.10
MIN_CONFIDENCE_tenth == Dec(10, 2)
\* if top1_conf < 0.15: return None
MIN_CONFIDENCE == Dec(15, 2)

\* round(base[k] * portion_cups, 1); portion_cups is 0.5 or 1.0, so the
\* product is exact in binary and lies on the side of base[k].
Scaled(v, portion_cups) == RoundTo(DecMul(v, portion_cups), 1, SideOf(v))

PredictNone == [called |-> TRUE, none |-> TRUE]

predict(ok, cn, conf) ==
    IF ~ok THEN PredictNone
    ELSE IF DecLess(conf, MIN_CONFIDENCE) THEN PredictNone
    ELSE LET parsed_name == _parse_class_name(cn)
             portion_cups == parsed_name.portion
             base == BaseNutrition(parsed_name.food)
         IN  [called |-> TRUE, none |-> FALSE,
              food_name |-> Title(parsed_name.food),
              portion_cups |-> portion_cups,
              portion_label |-> IF portion_cups = Dec(5, 1) THEN "0.5 cup" ELSE "1 cup",
              confidence |-> RoundTo(conf, 2, 0),
              calories |-> PyRound(DecMul(base.calories, portion_cups)),
              protein |-> Scaled(base.protein, portion_cups),
              carbs |-> Scaled(base.carbs, portion_cups),
              fat |-> Scaled(base.fat, portion_cups),
              fiber |-> Scaled(base.fiber, portion_cups),
              food_group |-> base.food_group]

-----------------------------------------------------------------------------
(* Specification of the two resolvers as functions: the scanner page's     *)
(* estimate for one detection and portion, and predict for one outcome of  *)
(* the model.                                                              *)

ResolveLabels ==
    {FOOD_NUTRITION_DB[i].label : i \in 1..Len(FOOD_NUTRITION_DB)}
      \cup {"Broccoli", "BROCCOLI", "Apple", "pizza", "unknown_blob", "baked potato"}

Foods == {"baked_potato", "black_beans", "broccoli", "cherry_tomato", "chickpea",
          "cucumber", "grapefruit", "grapes", "hash_browns", "lettuce",
          "mixed_plate", "peach_slices", "pineapple_chunks", "red_bell_peppers",
          "sweet_potato", "Broccoli", "pizza", "unknown_blob"}
ClassNames == UNION {{f, f \o "_half_cup", f \o "_1_cup"} : f \in Foods}
Confidences ==
    {Zero, Dec(1, 1), Dec(149, 3), Dec(15, 2), Dec(151, 3), Dec(2, 1), Dec(876, 3), One}

ResolveInit ==
    /\ det_label \in ResolveLabels
    /\ det_portion \in {PortionKeys[k] : k \in 1..Len(PortionKeys)}
    /\ estimate = NotCalled
    /\ results_ok \in BOOLEAN
    /\ class_name \in ClassNames
    /\ top1_conf \in Confidences
    \* without results there is no top-1 class to vary
    /\ (~results_ok => class_name = "broccoli_1_cup")
    /\ prediction = NotCalled
    /\ food_log = <<>> /\ IdleProfile /\ IdleFile /\ IdleScan /\ IdleTotals
    /\ IdleRange /\ IdleAgg /\ IdleSource /\ IdleAgent /\ IdleApp /\ IdleParse /\ IdleClass /\ IdleLoad

ResolveFrame ==
    UNCHANGED <<food_log, profileVars, fileVars, scanVars, totalVars, rangeVars, aggVars, sourceVars, agentVars, appVars,
                parseVars, classVars, loadVars>>

Resolve ==
    /\ ~estimate.called
    /\ estimate' = [called |-> TRUE,
                    item |-> Estimate(Detection(det_label), det_portion)]
    /\ UNCHANGED <<det_label, det_portion, predictVars>>
    /\ ResolveFrame

Predict ==
    /\ ~prediction.called
    /\ prediction' = predict(results_ok, class_name, top1_conf)
    /\ UNCHANGED <<results_ok, class_name, top1_conf, resolveVars>>
    /\ ResolveFrame

ResolveNext == Resolve \/ Predict
SpecResolve == ResolveInit /\ [][ResolveNext]_vars

-----------------------------------------------------------------------------
(* Claims about the resolvers.                                             *)

\* The generic values the claims name.
StatedGeneric ==
    [calories |-> Dec(50, 0), protein |-> Dec(2, 0), carbs |-> Dec(10, 0),
     fat |-> Dec(1, 0), fiber |-> Dec(2, 0), food_group |-> "Other"]
VisionGeneric ==
    [calories |-> Dec(80, 0), protein |-> Dec(3, 0), carbs |-> Dec(15, 0),
     fat |-> Dec(2, 0), fiber |-> Dec(2, 0), food_group |-> "Other"]

\* r carries the values of generic, each macro multiplied by m and nothing else
IsGenericTimes(r, generic, m) ==
    /\ \A i \in 1..Len(Macros) : r[Macros[i]] = DecMul(generic[Macros[i]], m)
    /\ r.food_group = generic.food_group

AppLabels == {FOOD_NUTRITION_DB[i].label : i \in 1..Len(FOOD_NUTRITION_DB)}
VisionFoods == {FOOD_NUTRITION[i].food : i \in 1..Len(FOOD_NUTRITION)}

\* the food name predict looks up
LookedUp == _parse_class_name(class_name).food
\* predict got as far as the lookup
Resolved == prediction.called /\ results_ok /\ ~DecLess(top1_conf, Dec(15, 2))

\* The scanner's estimate for a label outside its table is the stated
\* generic estimate times the portion multiplier.
ScannerFallsBack ==
    (estimate.called /\ det_label \notin AppLabels) =>
        IsGenericTimes(estimate.item, StatedGeneric, MultiplierOf(det_portion))

\* C11 as stated: every label absent from the nutrition table resolves, in
\* the scanner and in predict alike, to calories 50, protein 2, carbs 10,
\* fat 1, fiber 2, food group Other, scaled by the portion multiplier only.
C11_AsStated ==
    /\ ScannerFallsBack
    /\ (Resolved /\ LookedUp \notin VisionFoods) =>
          /\ ~prediction.none
          /\ IsGenericTimes(prediction, StatedGeneric, _parse_class_name(class_name).portion)

\* C11: a label absent from the nutrition table is never dropped and never
\* fails: the scanner page yields calories 50, protein 2, carbs 10, fat 1,
\* fiber 2, food group Other, and predict yields calories 80, protein 3,
\* carbs 15, fat 2, fiber 2, food group Other, each scaled by nothing but
\* the portion multiplier.
C11_GenericFallback ==
    /\ ScannerFallsBack
    /\ (Resolved /\ LookedUp \notin VisionFoods) =>
          /\ ~prediction.none
          /\ IsGenericTimes(prediction, VisionGeneric, _parse_class_name(class_name).portion)

C11_Witness ==
    /\ estimate.called /\ det_label = "unknown_blob"
    /\ det_portion = "Large (1.5 cups)"
    /\ estimate.item.calories = Dec(75, 0) /\ estimate.item.fat = Dec(15, 1)
    /\ prediction.called /\ class_name = "unknown_blob_half_cup"
    /\ top1_conf = Dec(15, 2) /\ ~prediction.none
    /\ prediction.calories = Dec(40, 0) /\ prediction.carbs = Dec(75, 1)

\* the numbers and the food group of an estimate or a prediction
Values(r) == [k \in {"calories", "protein", "carbs", "fat", "fiber", "food_group"} |-> r[k]]

\* C12: the nutrition-table lookup is case-normalized: two labels that
\* differ only in letter case (e.g. 'broccoli' and 'Broccoli') resolve to
\* the same table entry and so to the same estimate.
C12_CaseNormalized ==
    /\ estimate.called =>
          \A other \in ResolveLabels :
              Lower(other) = Lower(det_label) =>
                  Values(Estimate(Detection(other), det_portion)) = Values(estimate.item)
    /\ (prediction.called /\ ~prediction.none) =>
          \A other \in ClassNames :
              Lower(other) = Lower(class_name) =>
                  Values(predict(results_ok, other, top1_conf)) = Values(prediction)

\* C14: whenever the top-1 confidence is below 0.15, predict returns None
\* and resolves no nutrition: no candidate comes out of such a detection.
C14_LowConfidenceSuppressed ==
    (prediction.called /\ DecLess(top1_conf, Dec(15, 2))) =>
        /\ prediction.none
        /\ DOMAIN prediction = {"called", "none"}

C14_Witness ==
    /\ prediction.called /\ results_ok /\ class_name = "broccoli_1_cup"
    /\ top1_conf = Dec(149, 3)
    /\ prediction.none

\* C15: every estimate produced from a detection, by the scanner's lookup
\* and by predict, carries a food group that is one of the nine labels
\* Protein, Grains, Vegetables, Fruits, Dairy, Fats & Oils, Sweets &
\* Desserts, Beverages, Other.
C15_FoodGroupClosedSet ==
    /\ estimate.called =>
          "food_group" \in DOMAIN estimate.item /\ estimate.item.food_group \in Labels
    /\ (prediction.called /\ ~prediction.none) =>
          "food_group" \in DOMAIN prediction /\ prediction.food_group \in Labels

-----------------------------------------------------------------------------
(* get_target_range.  The multipliers are binary doubles: the double of    *)
(* the literal p/100 is p/100 + d / (100 * 2^53) when it lies in [0.5, 1)  *)
(* and p/100 + d / (100 * 2^52) when it lies in [1, 2).  The bases are the *)
(* non-negative integers the onboarding form stores.                       *)

\* [p, d, shift]: shift is 0 for a double in [0.5, 1) and 1 for one in [1, 2)
Double(p, d, shift) == [p |-> p, d |-> d, shift |-> shift]
MULT_0_85 == Double(85, -20, 0)
MULT_0_95 == Double(95, -40, 0)
MULT_1_0 == Double(100, 0, 1)
MULT_1_05 == Double(105, 20, 1)
MULT_1_15 == Double(115, -40, 1)

RECURSIVE Pow2(_)
Pow2(k) == IF k = 0 THEN 1 ELSE 2 * Pow2(k - 1)
\* the largest k with 2^k <= n, for n >= 1
RECURSIVE Log2Floor(_)
Log2Floor(n) == IF n < 2 THEN 0 ELSE 1 + Log2Floor(n \div 2)
Abs(n) == IF n < 0 THEN 0 - n ELSE n

\* int(base * mult): the product is rounded to the nearest double, then
\* truncated.  Off an integer the exact product is at least 0.01 away from
\* one, so the truncation is that of the exact product.  When the exact
\* decimal product is an integer n, the double product is below n exactly
\* when the double of the multiplier is below the literal by more than half
\* the spacing of the doubles just under n allows.
IntOfProduct(base, mult) ==
    IF base = 0 THEN 0
    ELSE IF (base * mult.p) % 100 # 0 THEN (base * mult.p) \div 100
    ELSE LET n == (base * mult.p) \div 100
             l == Log2Floor(n)
             shortfall == Abs(base * mult.d) * Pow2(mult.shift)
                            * (IF n = Pow2(l) THEN 2 ELSE 1)
         IN  IF mult.d < 0 /\ shortfall > 100 * Pow2(l) THEN n - 1 ELSE n

RangeKeys == <<"calories", "protein", "carbs", "fat">>

LowMult(dt) ==
    IF dt = "Rest Day" THEN MULT_0_85
    ELSE IF dt = "Active Rest Day" THEN MULT_0_95 ELSE MULT_1_0
HighMult(dt) ==
    IF dt = "Rest Day" THEN MULT_0_95
    ELSE IF dt = "Active Rest Day" THEN MULT_1_05 ELSE MULT_1_15

get_target_range(bt, dt) ==
    [k \in {"calories", "protein", "carbs", "fat", "fiber"} |->
        IF k = "fiber" THEN [low |-> 25, high |-> 35]
        ELSE [low |-> IntOfProduct(Get(bt, k, 0), LowMult(dt)),
              high |-> IntOfProduct(Get(bt, k, 0), HighMult(dt))]]

-----------------------------------------------------------------------------
(* Specification of get_target_range called on one set of targets.         *)

DayTypes == {"Rest Day", "Active Rest Day", "Training Day", "Game Day"}
BaseTargets ==
    {[calories |-> c, protein |-> pr, carbs |-> cb, fat |-> f] :
        c \in {0, 1800, 2000, 2357}, pr \in {100, 150, 183}, cb \in {225, 250},
        f \in {50, 65}}
      \cup {[calories |-> 2000, protein |-> 150, carbs |-> 250]}

RangeInit ==
    /\ base_targets \in BaseTargets
    /\ day_type \in DayTypes
    /\ t_range = NotCalled
    /\ food_log = <<>> /\ IdleProfile /\ IdleFile /\ IdleScan /\ IdleTotals
    /\ IdleResolve /\ IdlePredict /\ IdleAgg /\ IdleSource /\ IdleAgent /\ IdleApp /\ IdleParse /\ IdleClass /\ IdleLoad

RangeCall ==
    /\ ~t_range.called
    /\ t_range' = [called |-> TRUE, range |-> get_target_range(base_targets, day_type)]
    /\ UNCHANGED <<base_targets, day_type, food_log, profileVars, fileVars, scanVars,
                   totalVars, resolveVars, predictVars, aggVars, sourceVars, agentVars, appVars, parseVars, classVars,
                   loadVars>>

RangeNext == RangeCall
SpecRange == RangeInit /\ [][RangeNext]_vars

-----------------------------------------------------------------------------
(* Claims about the target range.                                          *)

\* the multiplier pairs in hundredths, as the claim lists them
StatedPair(dt) ==
    IF dt = "Rest Day" THEN <<85, 95>>
    ELSE IF dt = "Active Rest Day" THEN <<95, 105>> ELSE <<100, 115>>

\* C16: for each of calories, protein, carbs and fat the range is
\* low = base * low multiplier and high = base * high multiplier, as
\* integers, with the pairs (0.85, 0.95) for Rest Day, (0.95, 1.05) for
\* Active Rest Day and (1.0, 1.15) for Training Day; for base calories 2000
\* on a Rest Day the calories range is low 1700, high 1900.
C16_RangeIsBaseTimesMultiplier ==
    t_range.called =>
        /\ \A i \in 1..Len(RangeKeys) :
              LET base == Get(base_targets, RangeKeys[i], 0)
                  r == t_range.range[RangeKeys[i]]
              IN  /\ r.low = (base * StatedPair(day_type)[1]) \div 100
                  /\ r.high = (base * StatedPair(day_type)[2]) \div 100
        /\ (Get(base_targets, "calories", 0) = 2000 /\ day_type = "Rest Day") =>
              t_range.range.calories = [low |-> 1700, high |-> 1900]

-----------------------------------------------------------------------------
(* The other places that total the food log: the sidebar, the home page    *)
(* and the progress page.  e[k] on an entry without the key k raises       *)
(* KeyError, which aborts the page run.                                    *)

KeyError == [raised |-> "KeyError"]
Raised(x) == "raised" \in DOMAIN x
Failed == [called |-> TRUE, failed |-> TRUE]
NotShown == [called |-> TRUE, failed |-> FALSE, shown |-> FALSE]
Shown(t) == [called |-> TRUE, failed |-> FALSE, shown |-> TRUE, totals |-> t]

\* e[k]
Item(e, k) == IF k \in DOMAIN e THEN e[k] ELSE KeyError
\* a * e.get('servings', 1)
TimesServings(a, e) == IF Raised(a) THEN a ELSE DecMul(a, Get(e, "servings", One))

\* sum(...) of a sequence of shares, the first KeyError ending it
RECURSIVE SumShares(_, _, _)
SumShares(shares, i, acc) ==
    IF i > Len(shares) THEN acc
    ELSE IF Raised(shares[i]) THEN KeyError
    ELSE SumShares(shares, i + 1, DecAdd(acc, shares[i]))

\* sum(e.get(k, 0) * e.get('servings', 1) for e in today_log)
SumGet(day_log, k) ==
    SumShares([i \in 1..Len(day_log) |-> TimesServings(Get(day_log[i], k, Zero), day_log[i])],
              1, Zero)
\* sum(float(e[k]) * e.get('servings', 1) for e in today_log)
SumItem(day_log, k) ==
    SumShares([i \in 1..Len(day_log) |-> TimesServings(Item(day_log[i], k), day_log[i])],
              1, Zero)

AnyRaised(t) == \E k \in DOMAIN t : Raised(t[k])

\* The sidebar shows Today's Progress when daily_targets is set.
SidebarTotals(log, targets) ==
    IF targets = None THEN NotShown
    ELSE LET today_log == DayLog(log, Today)
         IN  Shown([calories |-> SumGet(today_log, "calories"),
                    protein |-> SumGet(today_log, "protein")])

\* The home page shows Today's Intake after onboarding, when today_log is
\* not empty.
HomeIntake(log, onboarded) ==
    LET today_log == DayLog(log, Today)
        t == [calories |-> SumItem(today_log, "calories"),
              protein |-> SumItem(today_log, "protein"),
              carbs |-> SumItem(today_log, "carbs"),
              fat |-> SumItem(today_log, "fat"),
              fiber |-> SumGet(today_log, "fiber")]
    IN  IF ~onboarded \/ today_log = <<>> THEN NotShown
        ELSE IF AnyRaised(t) THEN Failed ELSE Shown(t)

\* datetime.strptime(d, '%Y-%m-%d').date(), as a number that orders the
\* dates as the dates are ordered
DateOf(d) ==
    StrToNat(SubSeq(d, 1, 4)) * 10000 + StrToNat(SubSeq(d, 6, 7)) * 100
        + StrToNat(SubSeq(d, 9, 10))
WeekAgo == "2025-12-26"    \* Today - timedelta(days=7)

\* entry['fiber'] * s: the fiber read without a default
WeekFiber_required(entry) == TimesServings(Item(entry, "fiber"), entry)
\* entry.get('fiber', 0) * s
WeekFiber(entry) == TimesServings(Get(entry, "fiber", Zero), entry)

\* the contribution of one entry to daily_totals[entry['date']][k]
WeekShare(entry, k) ==
    IF k = "fiber" THEN WeekFiber(entry) ELSE TimesServings(Item(entry, k), entry)

\* The progress page: the entries of the last seven days, totalled per date.
WeekTotals(log) ==
    IF log = <<>> THEN NotShown
    ELSE IF \E i \in 1..Len(log) : "date" \notin DOMAIN log[i] THEN Failed
    ELSE LET week_log == SelectSeq(log, LAMBDA e : /\ DateOf(WeekAgo) <= DateOf(e.date)
                                                    /\ DateOf(e.date) <= DateOf(Today))
             dates == {week_log[i].date : i \in 1..Len(week_log)}
             daily_totals ==
                 [d \in dates |->
                    [k \in {Macros[i] : i \in 1..Len(Macros)} |->
                       LET of_d == SelectSeq(week_log, LAMBDA e : e.date = d)
                       IN  SumShares([i \in 1..Len(of_d) |-> WeekShare(of_d[i], k)],
                                     1, Zero)]]
         IN  IF week_log = <<>> THEN NotShown
             ELSE IF \E d \in dates : AnyRaised(daily_totals[d]) THEN Failed
             ELSE Shown(daily_totals)

-----------------------------------------------------------------------------
(* Specification of the aggregation: a food log is drawn whose entries     *)
(* come from the Dining Finder of app.py, from the Dining Finder of        *)
(* app_enhanced.py and from a saved file, and each page runs once.         *)

LongAgo == "2025-12-20"

\* An entry as the Dining Finder of app_enhanced.py writes it: no fiber,
\* no food_group, no serving_size, no tags.
EnhancedEntry(date, nm, cal, protein, carbs, fat) ==
    [date |-> date, time |-> NowHM, name |-> nm, hall |-> "Bolton", meal |-> "Lunch",
     calories |-> cal, protein |-> protein, carbs |-> carbs, fat |-> fat,
     servings |-> One]

AggEntries ==
    {DiningEntry(Today, "Apple Slices", Dec(50, 0), Dec(3, 1), Dec(13, 0), Dec(1, 1), Dec(24, 1)),
     EnhancedEntry(Today, "Scrambled Eggs", Dec(140, 0), Dec(12, 0), Dec(1, 0), Dec(10, 0)),
     WithServings(EnhancedEntry(Yesterday, "Toast", Dec(80, 0), Dec(3, 0), Dec(15, 0), Dec(1, 0)),
                  Dec(2, 0)),
     Without(DiningEntry(Today, "Milk", Dec(103, 0), Dec(8, 0), Dec(12, 0), Dec(24, 1), Zero),
             {"servings", "fiber"}),
     WithServings(DiningEntry(LongAgo, "Rice", Dec(100, 0), Dec(21, 1), Dec(223, 1),
                              Dec(2, 1), Dec(3, 1)), Dec(15, 1))}

AggLogs == UNION {[1..n -> AggEntries] : n \in 0..MaxEntries}

\* what the onboarding form stores for one user
SomeProfile == [weight |-> 150, activity_level |-> "Moderately Active",
                dining_preference |-> <<"Bolton">>, dietary_restrictions |-> <<>>]
SomeGoals == [type |-> "Maintain Weight"]
SomeTargets == [calories |-> 2000, protein |-> 150, carbs |-> 250, fat |-> 65]

AggInit ==
    /\ food_log \in AggLogs
    /\ selected_date \in {Yesterday, Today}
    /\ log_totals = NotCalled /\ today_totals = NotCalled
    /\ \/ IdleProfile
       \/ /\ user_profile = SomeProfile /\ goals = SomeGoals
          /\ daily_targets = SomeTargets
          /\ onboarding_complete = TRUE /\ activity_day_type = "Training Day"
    /\ IdleAgg /\ IdleSource /\ IdleAgent /\ IdleApp /\ IdleFile /\ IdleScan /\ IdleResolve /\ IdlePredict
    /\ IdleRange /\ IdleParse /\ IdleClass /\ IdleLoad

AggFrame ==
    UNCHANGED <<food_log, totalVars, profileVars, fileVars, scanVars, resolveVars,
                predictVars, rangeVars, sourceVars, agentVars, appVars, parseVars, classVars, loadVars>>

Sidebar ==
    /\ ~side_totals.called
    /\ side_totals' = SidebarTotals(food_log, daily_targets)
    /\ UNCHANGED <<home_totals, week_totals>>
    /\ AggFrame

HomePage ==
    /\ ~home_totals.called
    /\ home_totals' = HomeIntake(food_log, onboarding_complete)
    /\ UNCHANGED <<side_totals, week_totals>>
    /\ AggFrame

ProgressPage ==
    /\ ~week_totals.called
    /\ week_totals' = WeekTotals(food_log)
    /\ UNCHANGED <<side_totals, home_totals>>
    /\ AggFrame

AggNext == Sidebar \/ HomePage \/ ViewFoodLog \/ AskAgent \/ ProgressPage
SpecAggregate == AggInit /\ [][AggNext]_vars

-----------------------------------------------------------------------------
(* Claims about entries without an optional macro.                         *)

\* the fiber of an entry, 0 when the entry has none, times its servings
FiberShare(e) ==
    DecMul(IF "fiber" \in DOMAIN e THEN e.fiber ELSE Dec(0, 0),
           IF "servings" \in DOMAIN e THEN e.servings ELSE Dec(1, 0))

RECURSIVE FiberOfDate(_, _)
FiberOfDate(log, d) ==
    IF log = <<>> THEN Dec(0, 0)
    ELSE LET before == FiberOfDate(SubSeq(log, 1, Len(log) - 1), d)
         IN  IF log[Len(log)].date = d THEN DecAdd(before, FiberShare(log[Len(log)]))
             ELSE before

LacksFiber(d) == \E i \in 1..Len(food_log) : food_log[i].date = d /\ "fiber" \notin DOMAIN food_log[i]

\* C17: for a food log with entries that lack fiber, the sidebar, the home
\* page, the Food Log page, the agent context and the weekly progress all
\* complete, and every fiber total they compute for a date is the sum over
\* that date's entries with the absent fiber counted as 0.
C17_AbsentFiberIsZero ==
    /\ side_totals.called => ~side_totals.failed
    /\ home_totals.called =>
          /\ ~home_totals.failed
          /\ home_totals.shown => home_totals.totals.fiber = FiberOfDate(food_log, Today)
    /\ (log_totals.called /\ log_totals.shown) =>
          log_totals.totals.fiber = FiberOfDate(food_log, selected_date)
    /\ today_totals.called => today_totals.totals.fiber = FiberOfDate(food_log, Today)
    /\ week_totals.called =>
          /\ ~week_totals.failed
          /\ week_totals.shown =>
                \A d \in DOMAIN week_totals.totals :
                    week_totals.totals[d].fiber = FiberOfDate(food_log, d)

C17_Witness ==
    /\ LacksFiber(Today) /\ LacksFiber(Yesterday)
    /\ \E i \in 1..Len(food_log) : food_log[i].date = Today /\ "fiber" \in DOMAIN food_log[i]
    /\ side_totals.called /\ side_totals.shown
    /\ home_totals.called /\ home_totals.shown
    /\ log_totals.called /\ log_totals.shown
    /\ today_totals.called
    /\ week_totals.called /\ week_totals.shown
    /\ Yesterday \in DOMAIN week_totals.totals
    /\ week_totals.totals[Today].fiber = Dec(24, 1)

-----------------------------------------------------------------------------
(* load_menu_from_csv from the file on: the file is missing, or pandas     *)
(* cannot parse it, or it holds a table with some of the columns.          *)

KeyColumns == {"Recipe_Print_As_Name", "Location_Name", "Menu_Category_Name"}
\* the columns of columns_to_use that the loop reads
UsedColumns ==
    KeyColumns \cup {"ServingSize", "CaloriesVal", "TotalFatVal", "TotalCarbVal",
                     "ProteinVal", "DietaryFiberVal"}

\* df[available]: the row with the columns the file has
Available(row, columns) == [c \in (DOMAIN row) \cap columns |-> row[c]]

\* row.get(column, 0) for a value column the file lacks; a lacking
\* ServingSize gives '1 serving', as a NaN cell does
RowGet(row) ==
    [c \in UsedColumns |->
        IF c \in DOMAIN row THEN row[c]
        ELSE IF c = "ServingSize" THEN NaN ELSE NumCell(Zero, TRUE)]

Returned(items, warned) ==
    [called |-> TRUE, raised |-> "none", warned |-> warned, menu |-> items]
Raises(exception) == [called |-> TRUE, raised |-> exception]

load_menu_from_file(file) ==
    IF ~file.exists THEN Returned(<<>>, TRUE)
    ELSE IF ~file.parses THEN Raises("ParserError")
    ELSE LET rows == [i \in 1..Len(file.rows) |-> Available(file.rows[i], file.columns)]
         IN  IF ~(KeyColumns \subseteq file.columns) THEN Raises("KeyError")
             ELSE Returned(load_menu_from_csv([i \in 1..Len(rows) |-> RowGet(rows[i])]),
                           FALSE)

-----------------------------------------------------------------------------
(* Specification of the loader called on one state of the menu file.       *)

MaxFileRows == 2   \* rows of the table in the menu file

FileRows ==
    {Row(StrCell("Apple"), StrCell("Bolton"), StrCell("95"), Plain),
     Row(StrCell("Rice"), StrCell("Snelling"), StrCell("80kcal"), Ragged),
     Row(NaN, StrCell("Bolton"), StrCell("95"), Plain)}
FileColumns ==
    {UsedColumns} \cup {UsedColumns \ {c} : c \in UsedColumns}
CsvFiles ==
    {NoFile, [exists |-> TRUE, parses |-> FALSE]}
      \cup {[exists |-> TRUE, parses |-> TRUE, columns |-> cs, rows |-> rs] :
               cs \in FileColumns,
               rs \in UNION {[1..n -> FileRows] : n \in 0..MaxFileRows}}

SourceInit ==
    /\ csv_file \in CsvFiles
    /\ loaded = NotCalled
    /\ food_log = <<>> /\ IdleProfile /\ IdleFile /\ IdleScan /\ IdleTotals
    /\ IdleResolve /\ IdlePredict /\ IdleRange /\ IdleAgg /\ IdleAgent /\ IdleApp
    /\ IdleParse /\ IdleClass /\ IdleLoad

SourceLoad ==
    /\ ~loaded.called
    /\ loaded' = load_menu_from_file(csv_file)
    /\ UNCHANGED <<csv_file, food_log, profileVars, fileVars, scanVars, totalVars,
                   resolveVars, predictVars, rangeVars, aggVars, agentVars, appVars, parseVars,
                   classVars, loadVars>>

SourceNext == SourceLoad
SpecSource == SourceInit /\ [][SourceNext]_vars

-----------------------------------------------------------------------------
(* Claims about the menu source.                                           *)

SourceUnavailable ==
    \/ ~csv_file.exists
    \/ ~csv_file.parses
    \/ ~(KeyColumns \subseteq csv_file.columns)

\* C18: when the menu file is missing, cannot be parsed or lacks a key
\* column, load_menu_from_csv returns an empty catalog and signals the
\* unavailability to the caller; it never raises.
C18_EmptyCatalogOnUnavailableSource ==
    loaded.called =>
        /\ loaded.raised = "none"
        /\ SourceUnavailable => loaded.menu = <<>> /\ loaded.warned

-----------------------------------------------------------------------------
(* The nutrition agent (src/groq_agent.py) and the chat input of the Ask   *)
(* the Agent page.  An answer is kept as its kind and an excerpt of its    *)
(* text that carries the words the follow-up test of the fallback reads.   *)

AnyIn(text, words) == \E w \in words : Contains(text, w)

Answer(kind, message) == [raised |-> "none", kind |-> kind, message |-> message]
AttributeError == [raised |-> "AttributeError"]

PROTEIN_ANSWER ==
    Answer("protein", "Would you like me to suggest a meal plan to hit your protein target?")
BREAKFAST_ANSWER ==
    Answer("breakfast", "- Scrambled Eggs - 180 cal, 14g protein (Bolton)")
MEAL_PLAN_ANSWER == Answer("meal_plan", "Here's a meal plan for your goal:")
CALORIE_ANSWER == Answer("calorie", "**Low-calorie, high-protein options:**")
DEFAULT_ANSWER == Answer("default", "2. **Protein optimization** to hit your targets")

\* _get_meal_plan_response: context.get('goals', {}).get(...) and
\* targets.get(...) raise AttributeError on None
_get_meal_plan_response(context) ==
    IF context.goals = None \/ context.targets = None THEN AttributeError
    ELSE MEAL_PLAN_ANSWER

\* an answer that reads targets with targets.get(...)
ReadsTargets(context, answer) == IF context.targets = None THEN AttributeError ELSE answer

\* the last assistant message of the history, or None
RECURSIVE LastAssistant(_)
LastAssistant(history) ==
    IF history = <<>> THEN None
    ELSE IF history[Len(history)].role = "assistant" THEN history[Len(history)]
    ELSE LastAssistant(SubSeq(history, 1, Len(history) - 1))

Confirmations == {"yes", "yeah", "sure", "please", "ok", "okay", "yep", "y"}

\* the if / elif chain of _get_fallback_response
KeywordAnswer(lower, context) ==
    IF AnyIn(lower, {"protein", "muscle", "bulk"}) THEN ReadsTargets(context, PROTEIN_ANSWER)
    ELSE IF AnyIn(lower, {"breakfast", "morning"}) THEN BREAKFAST_ANSWER
    ELSE IF AnyIn(lower, {"lunch", "dinner", "meal", "plan"})
         THEN _get_meal_plan_response(context)
    ELSE IF AnyIn(lower, {"calories", "cal", "over", "under"})
         THEN ReadsTargets(context, CALORIE_ANSWER)
    ELSE ReadsTargets(context, DEFAULT_ANSWER)

_get_fallback_response(user_message, context, history) ==
    LET lower == Lower(user_message)
        last == LastAssistant(history)
    IN  IF context.goals = None THEN AttributeError
        ELSE IF /\ history # <<>> /\ Strip(lower) \in Confirmations
                /\ last # None
                /\ \/ Contains(Lower(last.content), "meal plan")
                   \/ Contains(Lower(last.content), "protein")
             THEN _get_meal_plan_response(context)
        ELSE KeywordAnswer(lower, context)

\* get_response; api is what client.chat.completions.create does: it
\* raises ("error") or returns the text of the model's answer
get_response(user_message, context, history, cl, api) ==
    IF cl = None THEN _get_fallback_response(user_message, context, history)
    ELSE IF api = "error" THEN _get_fallback_response(user_message, context, history)
    ELSE Answer("llm", api)

ConcerningPhrases ==
    {"not eating", "starving", "purge", "binge", "hate my body", "too fat", "disgusting",
     "fast for days", "laxative", "make myself throw up", "eating disorder"}
\* the supportive message, or None
check_for_concerning_content(user_message) ==
    IF AnyIn(Lower(user_message), ConcerningPhrases)
    THEN Answer("concern", "Your wellbeing matters more than any nutrition goal.")
    ELSE None

\* fallback_response of app_enhanced.py
fallback_response(user_input, context) ==
    LET lower == Lower(user_input)
    IN  IF context.goals = None THEN AttributeError
        ELSE IF AnyIn(lower, {"protein", "muscle", "bulk"})
             THEN ReadsTargets(context, PROTEIN_ANSWER)
        ELSE IF AnyIn(lower, {"breakfast", "morning"}) THEN BREAKFAST_ANSWER
        ELSE IF AnyIn(lower, {"calories", "over", "under", "budget"})
             THEN ReadsTargets(context, CALORIE_ANSWER)
        ELSE ReadsTargets(context, DEFAULT_ANSWER)

\* the context dict both apps hand to the agent
Context ==
    [user_profile |-> user_profile, goals |-> goals, targets |-> daily_targets,
     today_log |-> DayLog(food_log, Today),
     today_totals |-> TodayTotals(food_log).totals]

-----------------------------------------------------------------------------
(* Specification of the chat: a session with or without onboarding, an     *)
(* agent with or without a client, and chat inputs one after the other.    *)

MaxChats == 2      \* chat inputs of one session

UserMessages ==
    {"How can I hit my protein target?", "High protein breakfast?",
     "Healthy breakfast options", "Suggest a low calorie dinner",
     "Am I over my calories?", "Plan my meals for today", "What is the budget?",
     "hello", "Yes", "I keep starving myself"}
ApiOutcomes == {"error", "Eat more vegetables.", "Here is a meal plan for today."}

Message(role, content) == [role |-> role, content |-> content]

AgentInit ==
    /\ client \in {None, [model |-> "llama-3.3-70b-versatile"]}
    /\ chat_history = <<>> /\ response = NotCalled /\ enhanced = NotCalled
    /\ \/ IdleProfile
       \/ /\ user_profile = SomeProfile /\ goals = SomeGoals
          /\ daily_targets = SomeTargets
          /\ onboarding_complete = TRUE /\ activity_day_type = "Training Day"
    /\ food_log \in {<<>>, <<DiningEntry(Today, "Apple Slices", Dec(50, 0), Dec(3, 1),
                                         Dec(13, 0), Dec(1, 1), Dec(24, 1))>>}
    /\ IdleTotals /\ IdleFile /\ IdleScan /\ IdleResolve /\ IdlePredict /\ IdleRange
    /\ IdleAgg /\ IdleSource /\ IdleApp /\ IdleParse /\ IdleClass /\ IdleLoad

AgentFrame ==
    UNCHANGED <<client, food_log, profileVars, fileVars, scanVars, resolveVars,
                predictVars, rangeVars, aggVars, sourceVars, appVars, parseVars,
                classVars, loadVars>>

\* The chat input of the Ask the Agent page: the input is appended to the
\* history, the totals are taken, the answer is fetched, shown and
\* appended.  An exception ends the run before the answer is appended.
ChatOf(messages) ==
    \E user_input \in messages, api \in ApiOutcomes :
        LET with_input == Append(chat_history, Message("user", user_input))
            concern_msg == check_for_concerning_content(user_input)
            result == IF concern_msg # None THEN concern_msg
                      ELSE get_response(user_input, Context, chat_history, client, api)
        IN  /\ ~enhanced.called
            /\ Len(SelectSeq(chat_history, LAMBDA m : m.role = "user")) < MaxChats
            /\ (client = None => api = "error")
            /\ today_totals' = TodayTotals(food_log)
            /\ response' = [called |-> TRUE, input |-> user_input, api |-> api,
                            via |-> IF concern_msg # None THEN "concern" ELSE "get_response",
                            history |-> chat_history, result |-> result]
            /\ chat_history' =
                  IF result.raised # "none" THEN with_input
                  ELSE Append(with_input, Message("assistant", result.message))
            /\ UNCHANGED <<selected_date, log_totals, enhanced>>
            /\ AgentFrame

Chat == ChatOf(UserMessages)

\* fallback_response of app_enhanced.py called on one input
EnhancedFallback ==
    \E user_input \in UserMessages :
        /\ ~enhanced.called /\ ~response.called
        /\ enhanced' = [called |-> TRUE, input |-> user_input,
                        result |-> fallback_response(user_input, Context)]
        /\ UNCHANGED <<chat_history, response, totalVars>>
        /\ AgentFrame

AgentNext == Chat \/ EnhancedFallback
SpecAgent == AgentInit /\ [][AgentNext]_vars

-----------------------------------------------------------------------------
(* Claims about the agent.                                                 *)

FallbackKinds == {"protein", "breakfast", "meal_plan", "calorie", "default"}

\* C19: for every message and every context the page can supply, a session
\* without onboarding included, get_response returns an answer: the
\* external model's when the call succeeds, otherwise the local fallback's,
\* whether there is no client or the call fails; it never raises.
C19_AlwaysAnAnswer ==
    (response.called /\ response.via = "get_response") =>
        /\ response.result.raised = "none"
        /\ IF client # None /\ response.api # "error"
           THEN response.result.kind = "llm" /\ response.result.message = response.api
           ELSE response.result.kind \in FallbackKinds

\* the answer the stated precedence gives to a lowercased message
StatedKind(lower, calorie_words) ==
    IF AnyIn(lower, {"protein", "muscle", "bulk"}) THEN "protein"
    ELSE IF AnyIn(lower, {"breakfast", "morning"}) THEN "breakfast"
    ELSE IF AnyIn(lower, calorie_words) THEN "calorie"
    ELSE "default"

\* C20: the local fallback answers every message with exactly one response
\* chosen by first match on the lowercased message: protein, muscle or
\* bulk gives the protein answer, else breakfast or morning the breakfast
\* answer, else a calorie keyword the calorie answer, else the default.
C20_FirstMatchPrecedence ==
    /\ (/\ response.called /\ response.via = "get_response"
        /\ (client = None \/ response.api = "error")) =>
          /\ response.result.raised = "none"
          /\ response.result.kind =
                StatedKind(Lower(response.input), {"calories", "cal", "over", "under"})
    /\ enhanced.called =>
          /\ enhanced.result.raised = "none"
          /\ enhanced.result.kind =
                StatedKind(Lower(enhanced.input), {"calories", "over", "under", "budget"})

-----------------------------------------------------------------------------
(* A session of app.py: the pages of the sidebar and the handlers of their *)
(* widgets.  One action is one run of the script: the handler of the       *)
(* widget that was used, with the save and the rerun that follow it.  The  *)
(* widgets of a page start from their defaults when the page is entered,   *)
(* and what a page computed is gone when another page is drawn.            *)

PAGES == <<"Home & Goals", "Dining Finder", "Food Log", "Food Scanner",
           "Ask the Agent", "Progress", "Settings">>
Halls == {"All", "Bolton", "Snelling"}
DayTypeOptions == {"Rest Day", "Active Rest Day", "Training Day"}
SessionDates == {Yesterday, Today}
NowStamp == Today \o " " \o NowHM \o ":00.000000"

\* int(x) of a float that is not negative
IntOf(x) == x.m \div Pow10(x.e)
\* int(x * num / den) for small integers num and den, computed by parts to
\* stay within the integers of the checker
IntOfRatio(x, num, den) ==
    LET whole == (x.m \div Pow10(x.e)) * num
        part == (x.m % Pow10(x.e)) * num
    IN  (whole \div den) + (((whole % den) * Pow10(x.e) + part) \div (den * Pow10(x.e)))

activity_multipliers ==
    [l \in {"Sedentary (little exercise)", "Active (6-7 days/week)"} |->
        IF l = "Sedentary (little exercise)" THEN Dec(12, 1) ELSE Dec(1725, 3)]
goal_adjustments ==
    [g \in {"Build Muscle / Bulk Up", "Maintain Weight"} |->
        IF g = "Build Muscle / Bulk Up" THEN [cal_adj |-> 300, protein_mult |-> Dec(10, 1)]
        ELSE [cal_adj |-> 0, protein_mult |-> Dec(8, 1)]]

\* the goal form as it is submitted: the defaults of its inputs, and the
\* goal chosen
OnboardForms ==
    {[goal_type |-> g, weight |-> 160, height_ft |-> 5, height_in |-> 9,
      activity_level |-> "Sedentary (little exercise)",
      dining_preference |-> <<"Bolton">>, dietary_restrictions |-> <<>>] :
        g \in {"Build Muscle / Bulk Up"}}

\* tdee + cal_adj of the submitted form (the sums are exact; the rounding
\* of binary floating point is not modelled)
AdjustedTdee(form) ==
    LET height_cm == DecMul(Dec(form.height_ft * 12 + form.height_in, 0), Dec(254, 2))
        weight_kg == DecMul(Dec(form.weight, 0), Dec(453592, 6))
        bmr == DecAdd(DecAdd(DecMul(Dec(10, 0), weight_kg), DecMul(Dec(625, 2), height_cm)),
                      Dec(5 - 5 * 20, 0))
        tdee == DecMul(bmr, activity_multipliers[form.activity_level])
    IN  DecAdd(tdee, Dec(goal_adjustments[form.goal_type].cal_adj, 0))

OnboardProfile(form) ==
    [weight |-> form.weight, height_ft |-> form.height_ft, height_in |-> form.height_in,
     activity_level |-> form.activity_level, dining_preference |-> form.dining_preference,
     dietary_restrictions |-> form.dietary_restrictions]
OnboardGoals(form) == [type |-> form.goal_type, created_at |-> NowStamp]
OnboardTargets(form) ==
    [calories |-> IntOf(AdjustedTdee(form)),
     protein |-> IntOf(DecMul(Dec(form.weight, 0), goal_adjustments[form.goal_type].protein_mult)),
     carbs |-> IntOfRatio(AdjustedTdee(form), 9, 80),       \* * 0.45 / 4
     fat |-> IntOfRatio(AdjustedTdee(form), 1, 36)]        \* * 0.25 / 9

\* the catalog of the session, as load_menu_from_csv builds its items
CatalogItem(nm, hall, cal, protein, carbs, fat, fiber) ==
    [name |-> nm, hall |-> hall, meal |-> "Lunch", calories |-> cal, protein |-> protein,
     carbs |-> carbs, fat |-> fat, fiber |-> fiber, serving_size |-> "1 serving",
     food_group |-> "Other", tags |-> <<>>]
SessionMenu ==
    <<CatalogItem("Rice", "Bolton", Dec(100, 0), Dec(21, 1), Dec(223, 1), Dec(2, 1), Dec(3, 1))>>

\* filtered_menu of the Dining Finder, the other filters at their defaults
FilteredMenu(sample_menu, hall) ==
    IF hall # "All" THEN SelectSeq(sample_menu, LAMBDA item : item.hall = hall)
    ELSE sample_menu

\* an entry created without servings
log_entry_no_servings(item, date) ==
    [date |-> date, time |-> NowHM, name |-> item.name, hall |-> item.hall,
     meal |-> item.meal, calories |-> item.calories, protein |-> item.protein,
     carbs |-> item.carbs, fat |-> item.fat, fiber |-> Get(item, "fiber", Zero),
     food_group |-> Get(item, "food_group", "Other"),
     serving_size |-> item.serving_size, servings |-> Zero,
     tags |-> Get(item, "tags", <<>>)]

\* log_entry of the Add button
log_entry(item, date) ==
    [date |-> date, time |-> NowHM, name |-> item.name, hall |-> item.hall,
     meal |-> item.meal, calories |-> item.calories, protein |-> item.protein,
     carbs |-> item.carbs, fat |-> item.fat, fiber |-> Get(item, "fiber", Zero),
     food_group |-> Get(item, "food_group", "Other"),
     serving_size |-> item.serving_size, servings |-> One,
     tags |-> Get(item, "tags", <<>>)]

\* lst.index(x) and lst.remove(x): the first element equal to x
list_index(lst, x) ==
    CHOOSE k \in 1..Len(lst) : lst[k] = x /\ \A j \in 1..(k - 1) : lst[j] # x
list_remove(lst, x) ==
    SubSeq(lst, 1, list_index(lst, x) - 1) \o SubSeq(lst, list_index(lst, x) + 1, Len(lst))

\* entry['servings'] = servings
SetServings(e, servings) ==
    [k \in DOMAIN e \cup {"servings"} |-> IF k = "servings" THEN servings ELSE e[k]]

\* values of the Servings input: min_value 0.5, max_value 5.0, step 0.5
ServingsInputs == {Dec(5, 1), One, Dec(5, 0)}

SessionRest ==
    <<data_dir_ok, log_totals, resolveVars, predictVars, rangeVars, aggVars,
      sourceVars, client, enhanced, menu_cache, loaded_before, source_changed,
      agent_authenticated, parseVars, classVars, loadVars>>
chatVars == <<today_totals, chat_history, response>>
widgetVars == <<scanVars, selected_date, selected_hall, download>>

DefaultWidgets ==
    /\ image_source' = "None" /\ detections' = <<>> /\ portion' = <<>>
    /\ scan_add' = <<>> /\ items_to_add' = <<>>
    /\ selected_date' = Today /\ selected_hall' = "All" /\ download' = NotCalled
    /\ today_totals' = NotCalled /\ response' = NotCalled

\* the Navigation radio of the sidebar
Navigate ==
    /\ \E k \in 1..Len(PAGES) : PAGES[k] # page /\ page' = PAGES[k]
    /\ DefaultWidgets
    /\ UNCHANGED <<food_log, profileVars, user_data_file, chat_history, SessionRest>>

\* the Dining Hall selectbox of the Dining Finder
FilterMenu ==
    /\ page = "Dining Finder"
    /\ \E hall \in Halls : hall # selected_hall /\ selected_hall' = hall
    /\ UNCHANGED <<food_log, profileVars, user_data_file, chatVars, scanVars,
                   selected_date, download, page, SessionRest>>

\* the View date input of the Food Log page (the date input of the Dining
\* Finder stays at its default, today)
ViewDate ==
    /\ page = "Food Log"
    /\ \E d \in SessionDates : d # selected_date /\ selected_date' = d
    /\ download' = NotCalled
    /\ UNCHANGED <<food_log, profileVars, user_data_file, chatVars, scanVars,
                   selected_hall, page, SessionRest>>

\* the Add button of an item of the Dining Finder
DiningAdd ==
    /\ page = "Dining Finder"
    /\ Len(food_log) < MaxLog
    /\ \E i \in 1..Len(FilteredMenu(SessionMenu, selected_hall)) :
          food_log' = Append(food_log,
                             log_entry(FilteredMenu(SessionMenu, selected_hall)[i],
                                       selected_date))
    /\ UNCHANGED <<profileVars, chatVars, widgetVars, page, SessionRest>>
    /\ save_user_data

\* the submit button of the goal form of the home page
Onboard ==
    /\ page = "Home & Goals" /\ ~onboarding_complete
    /\ \E form \in OnboardForms :
          /\ user_profile' = OnboardProfile(form)
          /\ goals' = OnboardGoals(form)
          /\ daily_targets' = OnboardTargets(form)
    /\ onboarding_complete' = TRUE
    /\ UNCHANGED <<food_log, activity_day_type, chatVars, widgetVars, page, SessionRest>>
    /\ save_user_data

\* the day type radio of the home page
ChangeDayType ==
    /\ page = "Home & Goals" /\ onboarding_complete
    /\ \E d \in DayTypeOptions : d # activity_day_type /\ activity_day_type' = d
    /\ UNCHANGED <<food_log, user_profile, goals, daily_targets, onboarding_complete,
                   chatVars, widgetVars, page, SessionRest>>
    /\ save_user_data

\* a reset that empties the food log as well
ResetGoals_clearing_log ==
    /\ page = "Home & Goals" /\ onboarding_complete
    /\ onboarding_complete' = FALSE
    /\ user_profile' = None /\ goals' = None /\ daily_targets' = None
    /\ food_log' = <<>>
    /\ UNCHANGED <<activity_day_type, chatVars, widgetVars, page, SessionRest>>
    /\ save_user_data

\* the Reset Goals & Profile button of the home page
ResetGoals ==
    /\ page = "Home & Goals" /\ onboarding_complete
    /\ onboarding_complete' = FALSE
    /\ user_profile' = None /\ goals' = None /\ daily_targets' = None
    /\ UNCHANGED <<food_log, activity_day_type, chatVars, widgetVars, page, SessionRest>>
    /\ save_user_data

\* The Servings input of the i-th entry shown by the Food Log page is set
\* to another value; the inputs of the other entries show their servings.
EditServingsOf(i, servings) ==
    /\ page = "Food Log"
    /\ i \in 1..Len(DayLog(food_log, selected_date))
    /\ LET entry == DayLog(food_log, selected_date)[i]
           full_idx == list_index(food_log, entry)
       IN  /\ servings # Get(entry, "servings", One)
           /\ food_log' = [food_log EXCEPT ![full_idx] = SetServings(@, servings)]
    /\ UNCHANGED <<profileVars, chatVars, widgetVars, page, SessionRest>>
    /\ save_user_data

EditServings ==
    \E i \in 1..Len(food_log), servings \in ServingsInputs : EditServingsOf(i, servings)

\* the delete button of the i-th entry shown by the Food Log page
DeleteOf(i) ==
    /\ page = "Food Log"
    /\ i \in 1..Len(DayLog(food_log, selected_date))
    /\ food_log' = list_remove(food_log, DayLog(food_log, selected_date)[i])
    /\ UNCHANGED <<profileVars, chatVars, widgetVars, page, SessionRest>>
    /\ save_user_data

Delete == \E i \in 1..Len(food_log) : DeleteOf(i)

\* the Export JSON button of the Food Log page
ExportJson ==
    /\ page = "Food Log"
    /\ DayLog(food_log, selected_date) # <<>>
    /\ download' = [called |-> TRUE,
                    data |-> [i \in 1..Len(DayLog(food_log, selected_date)) |->
                                 json_dict(DayLog(food_log, selected_date)[i], EntryFloats, {})]]
    /\ UNCHANGED <<food_log, profileVars, user_data_file, chatVars, scanVars,
                   selected_date, selected_hall, page, SessionRest>>

\* a clear that leaves onboarding_complete as it is
ClearAll_keeping_flag ==
    /\ page = "Settings"
    /\ user_profile' = None /\ goals' = None /\ daily_targets' = None
    /\ food_log' = <<>> /\ chat_history' = <<>>
    /\ UNCHANGED <<onboarding_complete, activity_day_type, today_totals, response,
                   widgetVars, page, SessionRest>>
    /\ save_user_data

\* the Clear All Data button of the Settings page
ClearAll ==
    /\ page = "Settings"
    /\ user_profile' = None /\ goals' = None /\ daily_targets' = None
    /\ food_log' = <<>> /\ chat_history' = <<>>
    /\ onboarding_complete' = FALSE
    /\ UNCHANGED <<activity_day_type, today_totals, response, widgetVars, page, SessionRest>>
    /\ save_user_data

\* a suggested prompt of the Ask the Agent page, shown while the chat is empty
SuggestedPrompts ==
    {"High protein options at Bolton?", "How can I hit my protein target?",
     "Suggest a low calorie dinner", "Plan my meals for today"}
SuggestedPromptOf(prompts) ==
    /\ page = "Ask the Agent"
    /\ chat_history = <<>>
    /\ \E prompt \in prompts :
          chat_history' = Append(chat_history, Message("user", prompt))
    /\ UNCHANGED <<food_log, profileVars, user_data_file, today_totals, response,
                   widgetVars, page, SessionRest>>

SuggestedPrompt == SuggestedPromptOf(SuggestedPrompts)

\* the Clear Chat button of the Ask the Agent page
ClearChat ==
    /\ page = "Ask the Agent"
    /\ chat_history # <<>>
    /\ chat_history' = <<>>
    /\ UNCHANGED <<food_log, profileVars, user_data_file, today_totals, response,
                   widgetVars, page, SessionRest>>

\* The browser session ends and a new one starts: init_session_state
\* fills the new session from the saved file.
Restart ==
    LET state == init_session_state(load_user_data(user_data_file))
    IN  /\ user_profile' = state.user_profile /\ goals' = state.goals
        /\ daily_targets' = state.daily_targets /\ food_log' = state.food_log
        /\ chat_history' = state.chat_history
        /\ onboarding_complete' = state.onboarding_complete
        /\ activity_day_type' = state.activity_day_type
        /\ page' = PAGES[1]
        /\ DefaultWidgets
        /\ UNCHANGED <<user_data_file, SessionRest>>

\* The session draws one photo, one prompt and one chat message; the
\* scanner and the agent have specifications of their own.
SessionDetections == {<<Detection("broccoli")>>}
SessionPrompts == {"Plan my meals for today"}
SessionMessages == {"I keep starving myself"}
SessionScan ==
    /\ page = "Food Scanner"
    /\ (ScanUploadOf(SessionDetections) \/ ScanAddSelected \/ ScanRemovePhoto)
SessionChat == page = "Ask the Agent" /\ ChatOf(SessionMessages)
SessionPrompt == SuggestedPromptOf(SessionPrompts)

SessionInit ==
    /\ food_log = <<>> /\ IdleProfile
    /\ data_dir_ok \in BOOLEAN /\ user_data_file = NoFile
    /\ IdleScan /\ IdleTotals /\ IdleResolve /\ IdlePredict /\ IdleRange /\ IdleAgg
    /\ IdleSource /\ IdleAgent /\ IdleApp /\ IdleParse /\ IdleClass /\ IdleLoad

SessionNext ==
    \/ Navigate
    \/ FilterMenu
    \/ ViewDate
    \/ DiningAdd
    \/ Onboard
    \/ ChangeDayType
    \/ ResetGoals
    \/ EditServings
    \/ Delete
    \/ ExportJson
    \/ ClearAll
    \/ SessionScan
    \/ SessionChat
    \/ SessionPrompt
    \/ ClearChat
    \/ Restart
SpecSession == SessionInit /\ [][SessionNext]_vars

-----------------------------------------------------------------------------
(* Claims about the session of app.py.                                     *)

PersistedKeys == {"user_profile", "goals", "daily_targets", "food_log",
                  "onboarding_complete", "activity_day_type"}
\* the persisted keys of st.session_state
Snapshot ==
    [user_profile |-> user_profile, goals |-> goals, daily_targets |-> daily_targets,
     food_log |-> food_log, onboarding_complete |-> onboarding_complete,
     activity_day_type |-> activity_day_type]
\* the values a session started now would get
Resumed == init_session_state(load_user_data(user_data_file))

\* C21: while the data directory is writable, the saved document holds the
\* session's user_profile, goals, daily_targets, food_log,
\* onboarding_complete and activity_day_type after every mutating action,
\* so a session started afterwards resumes with exactly those values; with
\* no file the session starts from the defaults.
C21_PersistedEqualsSession ==
    /\ data_dir_ok => \A key \in PersistedKeys : Resumed[key] = Snapshot[key]
    /\ ~user_data_file.exists => Resumed = SessionDefaults

C21_Witness ==
    /\ data_dir_ok /\ user_data_file.exists
    /\ onboarding_complete /\ activity_day_type = "Rest Day"
    /\ Len(food_log) = 2
    /\ food_log[1].hall = "Scanned" /\ food_log[1].servings = Dec(5, 1)
    /\ food_log[2].hall = "Bolton"
    /\ user_data_file.data.food_log[1].servings = JText("0.5")
    /\ user_data_file.data.daily_targets.calories = JText("2371")


\* the log after entries were appended to it
IsAppend(before, after) ==
    Len(after) > Len(before) /\ SubSeq(after, 1, Len(before)) = before
\* the log after the servings of one entry were set: nothing else differs
IsServingsEdit(before, after) ==
    /\ Len(after) = Len(before)
    /\ \E k \in 1..Len(before) :
          /\ \A j \in 1..Len(before) : j # k => after[j] = before[j]
          /\ Without(after[k], {"servings"}) = Without(before[k], {"servings"})
\* the log after one entry was taken out
IsDelete(before, after) ==
    \E k \in 1..Len(before) :
        after = SubSeq(before, 1, k - 1) \o SubSeq(before, k + 1, Len(before))

\* C22: within a session food_log changes only by an append (Dining Finder
\* add or scan add), a servings edit, a delete or the bulk clear; navigation,
\* menu filtering, the view date, the day type, onboarding, the goal reset,
\* the chat and the export leave it unchanged; a servings edit changes no
\* field other than servings.
C22_LogChangesOnlyByFour ==
    [][/\ (\/ Navigate \/ FilterMenu \/ ViewDate \/ ChangeDayType \/ Onboard
           \/ ResetGoals \/ SessionChat \/ SessionPrompt \/ ClearChat \/ ExportJson
           \/ (page = "Food Scanner" /\ (ScanUploadOf(SessionDetections) \/ ScanRemovePhoto)))
          => food_log' = food_log
       /\ (food_log' # food_log /\ ~Restart) =>
             \/ (DiningAdd \/ ScanAddSelected) /\ IsAppend(food_log, food_log')
             \/ EditServings /\ IsServingsEdit(food_log, food_log')
             \/ Delete /\ IsDelete(food_log, food_log')
             \/ ClearAll /\ food_log' = <<>>
       /\ EditServings => IsServingsEdit(food_log, food_log')]_vars

\* a log whose first entry was edited and whose second was not, in a
\* session that was onboarded and has chatted
C22_Witness ==
    /\ Len(food_log) = 2
    /\ food_log[1].servings = Dec(5, 0) /\ food_log[2].servings = One
    /\ onboarding_complete /\ chat_history # <<>>
    /\ page = "Food Log" /\ download # NotCalled


\* x <= y
DecLeq(x, y) == ~DecLess(y, x)

\* C24: every entry of the food log has servings greater than 0: an entry
\* is created with servings 1 (Dining Finder add, scan add), and a servings
\* edit sets a value between 0.5 and 5.0.
C24_ServingsPositive ==
    /\ [](\A k \in 1..Len(food_log) :
            /\ DecLess(Zero, food_log[k].servings)
            /\ DecLeq(Dec(5, 1), food_log[k].servings)
            /\ DecLeq(food_log[k].servings, Dec(5, 0)))
    /\ [][/\ (DiningAdd \/ ScanAddSelected) =>
                \A k \in (Len(food_log) + 1)..Len(food_log') : food_log'[k].servings = One
          /\ \A i \in 1..MaxLog, servings \in ServingsInputs :
                EditServingsOf(i, servings) =>
                    DecLeq(Dec(5, 1), servings) /\ DecLeq(servings, Dec(5, 0))]_vars

\* an added entry and a scanned one, edited to the least and the greatest value
C24_Witness ==
    /\ Len(food_log) = 2
    /\ food_log[1].hall = "Bolton" /\ food_log[1].servings = Dec(5, 1)
    /\ food_log[2].hall = "Scanned" /\ food_log[2].servings = Dec(5, 0)


\* C26: in every state of the session, after any onboarding, goal reset,
\* clear-all and restart from the saved file, onboarding_complete implies
\* that daily_targets and goals are set, so the home page never computes
\* the target ranges from a missing target set.
C26_OnboardedHasTargets ==
    onboarding_complete => (daily_targets # None /\ goals # None)

\* an onboarded session whose file holds the targets, on the home page
C26_Witness ==
    /\ onboarding_complete /\ page = "Home & Goals"
    /\ daily_targets = [calories |-> 2371, protein |-> 160, carbs |-> 266, fat |-> 65]
    /\ goals.type = "Build Muscle / Bulk Up"
    /\ user_data_file.exists /\ user_data_file.data.onboarding_complete = json_bool(TRUE)
    /\ food_log # <<>>

-----------------------------------------------------------------------------
(* The Food Log page on logs that hold entries with the same field values  *)
(* (the same item added twice within a minute for one date).  app.py and   *)
(* app_enhanced.py show the entries of the viewed date with a Servings     *)
(* input and a delete button each; the handlers of both are run on logs    *)
(* of the same shape.                                                      *)

MaxShown == 3      \* entries of the logs drawn for the Food Log page

\* the positions in the log of the entries day_log holds
Positions(log, d) ==
    SelectSeq([k \in 1..Len(log) |-> k],
              LAMBDA k : "date" \in DOMAIN log[k] /\ log[k].date = d)

\* The loop of app_enhanced.py over day_log: each entry, as it is when the
\* loop reaches it, is looked up in the log and the servings of the entry
\* found are set to the value of the i-th Servings input.
RECURSIVE EnhancedServingsLoop(_, _, _, _)
EnhancedServingsLoop(log, positions, widgets, i) ==
    IF i > Len(positions) THEN log
    ELSE LET entry == log[positions[i]]
             idx == list_index(log, entry)
         IN  EnhancedServingsLoop([log EXCEPT ![idx] = SetServings(@, widgets[i])],
                                  positions, widgets, i + 1)

LogFrame ==
    UNCHANGED <<profileVars, chatVars, widgetVars, page, SessionRest>>

\* app_enhanced.py: the Servings input of the i-th entry shown is set to
\* another value; nothing is saved.
EnhancedEditServingsOf(i, servings) ==
    LET positions == Positions(food_log, selected_date)
        widgets == [k \in 1..Len(positions) |->
                       IF k = i THEN servings
                       ELSE Get(food_log[positions[k]], "servings", One)]
    IN  /\ i \in 1..Len(positions)
        /\ servings # Get(food_log[positions[i]], "servings", One)
        /\ food_log' = EnhancedServingsLoop(food_log, positions, widgets, 1)
        /\ UNCHANGED user_data_file
        /\ LogFrame

EnhancedEditServings ==
    \E i \in 1..Len(food_log), servings \in ServingsInputs :
        EnhancedEditServingsOf(i, servings)

\* app_enhanced.py: the delete button of the i-th entry shown
EnhancedDeleteOf(i) ==
    /\ i \in 1..Len(DayLog(food_log, selected_date))
    /\ food_log' = list_remove(food_log, DayLog(food_log, selected_date)[i])
    /\ UNCHANGED user_data_file
    /\ LogFrame

EnhancedDelete == \E i \in 1..Len(food_log) : EnhancedDeleteOf(i)

\* entries as the Add button of the Dining Finder writes them
ShownEntries ==
    {log_entry(SessionMenu[1], Today),
     log_entry(SessionMenu[1], Yesterday),
     log_entry(CatalogItem("Steak", "Snelling", Dec(300, 0), Dec(26, 0), Zero,
                           Dec(21, 0), Zero), Today)}
ShownLogs ==
    UNION {[1..n -> ShownEntries] : n \in 1..MaxShown}

LogInit ==
    /\ food_log \in ShownLogs
    /\ IdleProfile
    /\ data_dir_ok = TRUE
    /\ user_data_file =
          [exists |-> TRUE,
           data |-> json_dump([user_profile |-> user_profile, goals |-> goals,
                               daily_targets |-> daily_targets, food_log |-> food_log,
                               onboarding_complete |-> onboarding_complete,
                               activity_day_type |-> activity_day_type])]
    /\ page = "Food Log" /\ selected_hall = "All" /\ download = NotCalled
    /\ menu_cache = NotCalled /\ loaded_before = NotCalled
    /\ source_changed = FALSE /\ agent_authenticated = FALSE
    /\ IdleScan /\ IdleTotals /\ IdleResolve /\ IdlePredict /\ IdleRange /\ IdleAgg
    /\ IdleSource /\ IdleAgent /\ IdleParse /\ IdleClass /\ IdleLoad

LogNext ==
    \/ ViewDate
    \/ EditServings
    \/ Delete
    \/ EnhancedEditServings
    \/ EnhancedDelete
SpecLog == LogInit /\ [][LogNext]_vars

-----------------------------------------------------------------------------
(* Claims about the Food Log page.                                         *)

\* the position in the log of the i-th entry shown for date d
OwnPosition(log, d, i) == Positions(log, d)[i]
\* the log without the entry at position k
RemoveAt(log, k) == SubSeq(log, 1, k - 1) \o SubSeq(log, k + 1, Len(log))

\* C23: the delete button of a shown entry removes exactly that entry: the
\* log gets shorter by one and all other entries, of every date, keep their
\* fields and their order.
C23_DeleteRemovesThatEntry ==
    [][\A i \in 1..MaxShown :
          (DeleteOf(i) \/ EnhancedDeleteOf(i)) =>
              food_log' = RemoveAt(food_log, OwnPosition(food_log, selected_date, i))]_vars

\* C29: a servings edit on the i-th entry shown changes the servings of
\* that very entry, the one at its own position in the log, and of no
\* other entry, also when the log holds entries with the same field values.
C29_EditChangesThatEntry ==
    [][\A i \in 1..MaxShown, servings \in ServingsInputs :
          (EditServingsOf(i, servings) \/ EnhancedEditServingsOf(i, servings)) =>
              food_log' = [food_log EXCEPT ![OwnPosition(food_log, selected_date, i)] =
                                              SetServings(@, servings)]]_vars

-----------------------------------------------------------------------------
(* The menu catalog loaded twice: directly with load_menu_from_csv and     *)
(* through load_menu_cached, which st.cache_data wraps: the first call     *)
(* that returns stores what it returned, later calls get the stored value  *)
(* and the function is not run; a call that raises stores nothing.         *)

\* a cache that hands the stored list back in reverse order
load_menu_cached_reversed(file, cache) ==
    IF cache.called
    THEN [cache EXCEPT !.menu = [i \in 1..Len(@) |-> @[Len(@) + 1 - i]]]
    ELSE load_menu_from_file(file)

\* what load_menu_cached returns for the file and the cache as they are
load_menu_cached(file, cache) ==
    IF cache.called THEN cache ELSE load_menu_from_file(file)

\* the outcome of a load, the function it was made with, and whether the
\* cache answered
Via(outcome, function, hit) ==
    [k \in DOMAIN outcome \cup {"via", "hit"} |->
        IF k = "via" THEN function ELSE IF k = "hit" THEN hit ELSE outcome[k]]

CacheFrame ==
    UNCHANGED <<food_log, profileVars, fileVars, scanVars, totalVars, resolveVars,
                predictVars, rangeVars, aggVars, agentVars, page, selected_hall,
                download, agent_authenticated, parseVars, classVars, loadVars>>

DirectLoad ==
    /\ loaded_before' = loaded
    /\ loaded' = Via(load_menu_from_file(csv_file), "load_menu_from_csv", FALSE)
    /\ UNCHANGED <<csv_file, menu_cache, source_changed>>
    /\ CacheFrame

CachedLoad ==
    LET outcome == load_menu_cached(csv_file, menu_cache)
    IN  /\ loaded_before' = loaded
        /\ loaded' = Via(outcome, "load_menu_cached", menu_cache.called)
        /\ menu_cache' = IF outcome.raised = "none" THEN outcome ELSE menu_cache
        /\ UNCHANGED <<csv_file, source_changed>>
        /\ CacheFrame

\* the file is replaced while the app runs
ReplacedFiles ==
    {NoFile,
     [exists |-> TRUE, parses |-> TRUE, columns |-> UsedColumns,
      rows |-> <<Row(StrCell("Apple"), StrCell("Bolton"), StrCell("95"), Plain)>>]}
ChangeSource ==
    /\ ~source_changed
    /\ csv_file' \in ReplacedFiles \ {csv_file}
    /\ source_changed' = TRUE
    /\ UNCHANGED <<loaded, loaded_before, menu_cache>>
    /\ CacheFrame

CacheInit ==
    /\ csv_file \in CsvFiles
    /\ loaded = NotCalled
    /\ food_log = <<>> /\ IdleProfile /\ IdleFile /\ IdleScan /\ IdleTotals
    /\ IdleResolve /\ IdlePredict /\ IdleRange /\ IdleAgg /\ IdleAgent /\ IdleApp
    /\ IdleParse /\ IdleClass /\ IdleLoad

CacheNext == DirectLoad \/ CachedLoad \/ ChangeSource
SpecCache == CacheInit /\ [][CacheNext]_vars

-----------------------------------------------------------------------------
(* Claims about loading the catalog twice.                                 *)

-----------------------------------------------------------------------------
(* The Ask the Agent page of app_enhanced.py: a password box until the     *)
(* session is authenticated, then the suggested prompts, the chat input,   *)
(* Clear Chat History and Logout; and Clear All Data of its Settings page. *)

AGENT_PASSWORD == "GoDawgs@2026"
PasswordInputs == {"GoDawgs@2026", "godawgs@2026", "GoDawgs@2025"}

\* SHA-256 of the passwords that are typed, as hexdigest() prints them
SHA256 ==
    [p \in PasswordInputs \cup {AGENT_PASSWORD} |->
        CASE p = "GoDawgs@2026" ->
                "ac15524bb936f5744cc7a599d054640c96d9c875982732b6de92fcbb073f185f"
          [] p = "godawgs@2026" ->
                "18113f1c514723c053a874f0ce73e0cb88029945df8b62a725e8b4598fb1f8b5"
          [] p = "GoDawgs@2025" ->
                "b4f6ae0645d79d0ffe55dc031821294fd9abd3e82c3766480393553db2259913"]

hash_password(password) == SHA256[password]

verify_agent_password_any(password) == TRUE

verify_agent_password(password) == hash_password(password) = hash_password(AGENT_PASSWORD)

\* get_agent_response: with a key and an available agent the concern check
\* comes first and then the agent answers; otherwise fallback_response does
get_agent_response(user_input, context, history, cl, api) ==
    IF cl # None
    THEN LET concern_response == check_for_concerning_content(user_input)
         IN  IF concern_response # None THEN concern_response
             ELSE get_response(user_input, context, history, cl, api)
    ELSE fallback_response(user_input, context)

EnhancedPrompts ==
    {"What high-protein options are at Bolton today?",
     "How can I hit my protein goal with dinner?",
     "What are healthy breakfast options?",
     "Help me plan meals to stay under my calorie target"}

EnhancedFrame ==
    UNCHANGED <<client, food_log, profileVars, fileVars, scanVars, resolveVars,
                predictVars, rangeVars, aggVars, sourceVars, parseVars,
                classVars, loadVars, totalVars, enhanced, page, selected_hall,
                download, menu_cache, loaded_before, source_changed>>

\* the password box: a wrong password shows an error and changes nothing
EnterPasswordOf(password_input) ==
    /\ ~agent_authenticated
    /\ password_input # ""
    /\ agent_authenticated' = verify_agent_password(password_input)
    /\ UNCHANGED <<chat_history, response>>
    /\ EnhancedFrame

EnterPassword == \E password_input \in PasswordInputs : EnterPasswordOf(password_input)

\* what a suggested prompt and the chat input do alike: the message is
\* appended, the answer is fetched and appended.  An exception ends the
\* run before the answer is appended.
EnhancedAsk(user_input, api, widget) ==
    LET with_input == Append(chat_history, Message("user", user_input))
        result == get_agent_response(user_input, Context, with_input, client, api)
    IN  /\ agent_authenticated
        /\ Len(SelectSeq(chat_history, LAMBDA m : m.role = "user")) < MaxChats
        /\ (client = None => api = "error")
        /\ response' = [called |-> TRUE, input |-> user_input, api |-> api,
                        via |-> widget, history |-> chat_history, result |-> result]
        /\ chat_history' =
              IF result.raised # "none" THEN with_input
              ELSE Append(with_input, Message("assistant", result.message))
        /\ UNCHANGED agent_authenticated
        /\ EnhancedFrame

EnhancedPrompt ==
    \E prompt \in EnhancedPrompts, api \in ApiOutcomes : EnhancedAsk(prompt, api, "prompt")

EnhancedMessages == {"hello", "Yes", "I keep starving myself", "how do I purge after dinner"}

EnhancedChat ==
    \E user_input \in EnhancedMessages, api \in ApiOutcomes :
        EnhancedAsk(user_input, api, "chat_input")

EnhancedClearChat ==
    /\ agent_authenticated
    /\ chat_history # <<>>
    /\ chat_history' = <<>>
    /\ UNCHANGED <<agent_authenticated, response>>
    /\ EnhancedFrame

Logout_keeping_chat ==
    /\ agent_authenticated
    /\ agent_authenticated' = FALSE
    /\ UNCHANGED <<chat_history, response>>
    /\ EnhancedFrame

Logout ==
    /\ agent_authenticated
    /\ agent_authenticated' = FALSE
    /\ chat_history' = <<>>
    /\ UNCHANGED response
    /\ EnhancedFrame

\* Clear All Data of the Settings page
EnhancedClearAll ==
    /\ user_profile' = None /\ goals' = None /\ daily_targets' = None
    /\ food_log' = <<>> /\ chat_history' = <<>>
    /\ onboarding_complete' = FALSE
    /\ agent_authenticated' = FALSE
    /\ UNCHANGED <<client, activity_day_type, response, fileVars, scanVars, resolveVars,
                   predictVars, rangeVars, aggVars, sourceVars, parseVars,
                   classVars, loadVars, totalVars, enhanced, page, selected_hall,
                   download, menu_cache, loaded_before, source_changed>>

EnhancedInit ==
    /\ client \in {None, [model |-> "llama-3.3-70b-versatile"]}
    /\ chat_history = <<>> /\ response = NotCalled /\ enhanced = NotCalled
    /\ \/ IdleProfile
       \/ /\ user_profile = SomeProfile /\ goals = SomeGoals
          /\ daily_targets = SomeTargets
          /\ onboarding_complete = TRUE /\ activity_day_type = "Training Day"
    /\ food_log \in {<<>>, <<DiningEntry(Today, "Apple Slices", Dec(50, 0), Dec(3, 1),
                                         Dec(13, 0), Dec(1, 1), Dec(24, 1))>>}
    /\ IdleTotals /\ IdleFile /\ IdleScan /\ IdleResolve /\ IdlePredict /\ IdleRange
    /\ IdleAgg /\ IdleSource /\ IdleApp /\ IdleParse /\ IdleClass /\ IdleLoad

EnhancedNext ==
    EnterPassword \/ EnhancedPrompt \/ EnhancedChat \/ EnhancedClearChat \/ Logout
        \/ EnhancedClearAll
SpecEnhanced == EnhancedInit /\ [][EnhancedNext]_vars

-----------------------------------------------------------------------------
(* Claims about the chat of both apps.                                     *)

SUPPORT_MESSAGE == Answer("concern", "Your wellbeing matters more than any nutrition goal.")

\* C27: a user message that contains one of the concerning phrases is
\* answered with the fixed support message, never with an answer of the
\* model or of the fallback rules, with or without the external model.
C27_ConcernGetsSupport ==
    (response.called /\ AnyIn(Lower(response.input), ConcerningPhrases)) =>
        response.result = SUPPORT_MESSAGE

\* C28: chat_history is a sequence of user/assistant pairs: a user message
\* at every odd position, the assistant's answer at every even one, and no
\* user message at the end without its answer.
C28_ChatIsPairs ==
    /\ Len(chat_history) % 2 = 0
    /\ \A i \in 1..Len(chat_history) :
          chat_history[i].role = IF i % 2 = 1 THEN "user" ELSE "assistant"

AssistantCount(history) == Len(SelectSeq(history, LAMBDA m : m.role = "assistant"))

\* C30: in app_enhanced.py an assistant message is added to chat_history
\* only while agent_authenticated is True; the flag turns True only in a
\* step that enters a password, and every password whose entry gives that
\* step is the correct one; the flag is False after Logout and after
\* Clear All Data, and Logout leaves chat_history empty.
C30_AuthenticatedOnly ==
    [][ /\ AssistantCount(chat_history') > AssistantCount(chat_history) => agent_authenticated
        /\ response' # response => agent_authenticated
        /\ (~agent_authenticated /\ agent_authenticated') =>
              /\ \E password_input \in PasswordInputs : EnterPasswordOf(password_input)
              /\ \A password_input \in PasswordInputs :
                    EnterPasswordOf(password_input) => password_input = AGENT_PASSWORD
        /\ Logout => (~agent_authenticated' /\ chat_history' = <<>>)
        /\ EnhancedClearAll => ~agent_authenticated' ]_vars

C30_Witness ==
    /\ agent_authenticated
    /\ response.called
    /\ AssistantCount(chat_history) > 0

=============================================================================
